---- MODULE Spec2Model ----
(***************************************************************************)
(* Manifest-driven task dependency engine and task scheduler of the        *)
(* Content-Studio pipeline: the dependency rule table and its evaluator    *)
(* (src/task_dependencies.ts) and the executor / scheduler loop            *)
(* (src/run_task.ts), over one bucket's manifest.json.                     *)
(***************************************************************************)
EXTENDS Integers, Sequences, FiniteSets, TLC

\* ------------------------------------------------------------------------
\* Bounds of the model
\* ------------------------------------------------------------------------
MaxFiles == 2
MaxExisting == 1
MaxReports == 2
MaxChunks == 1
MaxBuckets == 2
MaxManual == 2

\* ------------------------------------------------------------------------
\* Data model (src/types/manifest.ts)
\* ------------------------------------------------------------------------
NULL == "null"

FileItemStateEnum == {"queued", "processing", "ready", "error", "purged"}

TaskStateEnum == {"queued", "running", "done", "error"}

MediaTypeEnum == {"local", "iframe"}

\* the value of `x?.field` when find() returned undefined
Undefined == [id |-> "undefined", type |-> "undefined", state |-> "undefined",
              mediaType |-> "undefined", relatedOutput |-> "undefined",
              path |-> "undefined", error |-> "undefined", startedAt |-> "undefined",
              context |-> "undefined"]

Min(S) == CHOOSE x \in S : \A y \in S : x <= y

\* Array.prototype.find on fileManifest: the first artifact of the type
FindFile(m, t) ==
  LET idx == {i \in 1..Len(m.fileManifest) : m.fileManifest[i].type = t}
  IN IF idx = {} THEN Undefined ELSE m.fileManifest[Min(idx)]

\* Array.prototype.find on tasks: the first task with the id
FindTask(m, id) ==
  LET idx == {i \in 1..Len(m.tasks) : m.tasks[i].id = id}
  IN IF idx = {} THEN Undefined ELSE m.tasks[Min(idx)]

\* manifest.tasks.some(task => task.id === id)
HasTask(m, id) == \E i \in 1..Len(m.tasks) : m.tasks[i].id = id

\* manifest.fileManifest.some(file => file.type === t)
HasFile(m, t) == \E i \in 1..Len(m.fileManifest) : m.fileManifest[i].type = t

\* ------------------------------------------------------------------------
\* Dependency rule table (src/task_dependencies.ts)
\* ------------------------------------------------------------------------
TASK_DEPENDENCIES ==
  << "download_media", "extract_audio", "transcribe_whisperx",
     "merge_transcripts", "extract_text", "generate_rich_summary",
     "extract_topics", "generate_speech_summary", "initialize_text_chat" >>

RuleIds == {TASK_DEPENDENCIES[k] : k \in 1..Len(TASK_DEPENDENCIES)}

\* dependency.relatedOutput / createTask(...).relatedOutput of each rule
RuleOutput(id) ==
  CASE id = "download_media" -> "original_media"
    [] id = "extract_audio" -> "extracted_audio"
    [] id = "transcribe_whisperx" -> "transcript_whisperx_json"
    [] id = "merge_transcripts" -> "transcript_merged_vtt"
    [] id = "extract_text" -> "text_content_md"
    [] id = "generate_rich_summary" -> "summary_rich_json"
    [] id = "extract_topics" -> "topic_tags_json"
    [] id = "generate_speech_summary" -> "speech_summary_audio"
    [] id = "initialize_text_chat" -> "text_chat_history_json"

trigger_download_media(m) ==
  /\ FindTask(m, "fetch_info_json").state = "done"
  /\ FindFile(m, "info_json").state = "ready"
  /\ ~HasTask(m, "download_media")

\* the rule firing on a media artifact in any state, a placeholder included
trigger_extract_audio_anyState(m) ==
  /\ HasFile(m, "original_media")
  /\ ~HasTask(m, "extract_audio")

trigger_extract_audio(m) ==
  /\ FindFile(m, "original_media").state = "ready"
  /\ FindFile(m, "original_media").mediaType = "local"
  /\ ~HasTask(m, "extract_audio")

\* the rule without its "task already exists" guard
trigger_transcribe_whisperx_noGuard(m) ==
  FindFile(m, "extracted_audio").state = "ready"

trigger_transcribe_whisperx(m) ==
  /\ FindFile(m, "extracted_audio").state = "ready"
  /\ ~HasTask(m, "transcribe_whisperx")

\* the fan-in rule with "or" in place of "and"
trigger_merge_transcripts_either(m) ==
  /\ \/ FindFile(m, "transcript_en_vtt").state = "ready"
     \/ FindFile(m, "transcript_zh_vtt").state = "ready"
  /\ ~HasTask(m, "merge_transcripts")

trigger_merge_transcripts(m) ==
  /\ FindFile(m, "transcript_en_vtt").state = "ready"
  /\ FindFile(m, "transcript_zh_vtt").state = "ready"
  /\ ~HasTask(m, "merge_transcripts")

\* the rule without its "task already exists" guard
trigger_extract_text_noGuard(m) ==
  FindFile(m, "transcript_merged_vtt").state = "ready"

trigger_extract_text(m) ==
  /\ FindFile(m, "transcript_merged_vtt").state = "ready"
  /\ ~HasTask(m, "extract_text")

\* the rule firing for an artifact in error as well
trigger_generate_rich_summary_onError(m) ==
  /\ FindFile(m, "text_content_md").state \in {"ready", "error"}
  /\ ~HasTask(m, "generate_rich_summary")

trigger_generate_rich_summary(m) ==
  /\ FindFile(m, "text_content_md").state = "ready"
  /\ ~HasTask(m, "generate_rich_summary")

\* the rule firing for any artifact that has left processing
trigger_extract_topics_anyState(m) ==
  /\ FindFile(m, "summary_rich_json").state \in {"ready", "error", "purged"}
  /\ ~HasTask(m, "extract_topics")

trigger_extract_topics(m) ==
  /\ FindFile(m, "summary_rich_json").state = "ready"
  /\ ~HasTask(m, "extract_topics")

\* the rule without its "task already exists" guard
trigger_generate_speech_summary_noGuard(m) ==
  FindFile(m, "summary_md").state = "ready"

trigger_generate_speech_summary(m) ==
  /\ FindFile(m, "summary_md").state = "ready"
  /\ ~HasTask(m, "generate_speech_summary")

trigger_initialize_text_chat(m) ==
  /\ FindFile(m, "text_content_md").state = "ready"
  /\ ~HasTask(m, "initialize_text_chat")

triggerCondition(id, m) ==
  CASE id = "download_media" -> trigger_download_media(m)
    [] id = "extract_audio" -> trigger_extract_audio(m)
    [] id = "transcribe_whisperx" -> trigger_transcribe_whisperx(m)
    [] id = "merge_transcripts" -> trigger_merge_transcripts(m)
    [] id = "extract_text" -> trigger_extract_text(m)
    [] id = "generate_rich_summary" -> trigger_generate_rich_summary(m)
    [] id = "extract_topics" -> trigger_extract_topics(m)
    [] id = "generate_speech_summary" -> trigger_generate_speech_summary(m)
    [] id = "initialize_text_chat" -> trigger_initialize_text_chat(m)

getDefaultPathForFileType(fileType) ==
  CASE fileType = "original_media" -> "original/media.mp4"
    [] fileType = "original_thumbnail" -> "original/thumbnail.jpg"
    [] fileType = "info_json" -> "original/info.json"
    [] fileType = "transcript_en_vtt" -> "transcripts/en.vtt"
    [] fileType = "transcript_zh_vtt" -> "transcripts/zh.vtt"
    [] fileType = "transcript_whisperx_json" -> "transcripts/whisperx/transcript.json"
    [] fileType = "transcript_merged_vtt" -> "transcripts/merged.vtt"
    [] fileType = "text_content_md" -> "transcripts/content.md"
    [] fileType = "summary_rich_json" -> "summaries/rich_summary.json"
    [] fileType = "summary_md" -> "summaries/summary.md"
    [] fileType = "extracted_audio" -> "audio/audio.wav"
    [] fileType = "speech_summary_audio" -> "audio/summary.mp3"
    [] fileType = "topic_tags_json" -> "metadata/topics.json"
    [] fileType = "text_chat_history_json" -> "chats/text_chat.json"
    [] OTHER -> fileType \o ".data"

\* createTask(manifest).context of each rule, written as text; the bucket
\* metadata names no preferred quality or model, and the path inside the
\* context of extract_audio is not followed
RuleContext(id) ==
  CASE id = "download_media" -> "quality=best"
    [] id = "extract_audio" -> "sourcePath"
    [] id = "transcribe_whisperx" -> "model=medium.en"
    [] id = "initialize_text_chat" -> "model=deepseek-chat"
    [] OTHER -> NULL

\* the new task naming its output by path instead of by type
NewTask_pathOutput(id) ==
  [id |-> id, state |-> "queued", percent |-> 0,
   relatedOutput |-> getDefaultPathForFileType(RuleOutput(id)),
   startedAt |-> NULL, error |-> NULL, context |-> RuleContext(id)]

\* the Task record findTasksToTrigger builds from createTask(manifest)
NewTask(id) ==
  [id |-> id, state |-> "queued", percent |-> 0,
   relatedOutput |-> RuleOutput(id), startedAt |-> NULL, error |-> NULL,
   context |-> RuleContext(id)]

\* getPathForType that ignores the path recorded in the document
getPathForType_default(m, fileType) == getDefaultPathForFileType(fileType)

\* file?.path || getDefaultPathForFileType(fileType)
getPathForType(m, fileType) ==
  IF HasFile(m, fileType) /\ FindFile(m, fileType).path # ""
  THEN FindFile(m, fileType).path
  ELSE getDefaultPathForFileType(fileType)

getDerivedFrom(taskId, m) ==
  CASE taskId = "extract_audio" -> <<getPathForType(m, "original_media")>>
    [] taskId = "transcribe_whisperx" -> <<getPathForType(m, "extracted_audio")>>
    [] taskId = "merge_transcripts" ->
         <<getPathForType(m, "transcript_en_vtt"), getPathForType(m, "transcript_zh_vtt")>>
    [] taskId = "extract_text" -> <<getPathForType(m, "transcript_merged_vtt")>>
    [] taskId = "generate_rich_summary" -> <<getPathForType(m, "text_content_md")>>
    [] taskId = "extract_topics" -> <<getPathForType(m, "summary_rich_json")>>
    [] taskId = "generate_speech_summary" -> <<getPathForType(m, "summary_md")>>
    [] taskId = "initialize_text_chat" -> <<getPathForType(m, "text_content_md")>>
    [] OTHER -> <<>>

\* the FileItem placeholder findTasksToTrigger pushes for a new task
Placeholder(t, derivedFrom) ==
  [type |-> t, state |-> "queued", mediaType |-> NULL,
   path |-> getDefaultPathForFileType(t), derivedFrom |-> derivedFrom,
   version |-> 1]

\* the for-loop of findTasksToTrigger from rule k on; `files` is
\* manifest.fileManifest, which the loop extends in place
RECURSIVE TriggerLoop(_, _, _, _)
TriggerLoop(m, k, files, newTasks) ==
  IF k > Len(TASK_DEPENDENCIES)
  THEN [newTasks |-> newTasks, fileManifest |-> files]
  ELSE LET id == TASK_DEPENDENCIES[k]
           cur == [m EXCEPT !.fileManifest = files]
       IN IF ~triggerCondition(id, cur)
          THEN TriggerLoop(m, k + 1, files, newTasks)
          ELSE LET newTask == NewTask(id)
                   files2 == IF HasFile(cur, newTask.relatedOutput)
                             THEN files
                             ELSE Append(files, Placeholder(newTask.relatedOutput,
                                                               getDerivedFrom(id, cur)))
               IN TriggerLoop(m, k + 1, files2, Append(newTasks, newTask))

findTasksToTrigger(m) == TriggerLoop(m, 1, m.fileManifest, <<>>)

updateTaskDependencies(m) ==
  LET r == findTasksToTrigger(m)
  IN IF Len(r.newTasks) = 0
     THEN m
     ELSE [m EXCEPT !.tasks = m.tasks \o r.newTasks,
                    !.fileManifest = r.fileManifest]

\* ------------------------------------------------------------------------
\* Executor helpers (src/run_task.ts)
\* ------------------------------------------------------------------------
TASK_WORKER_MAP ==
  { "fetch_info_json", "download_media", "extract_audio", "transcribe_whisperx",
    "merge_transcripts", "extract_text", "generate_rich_summary",
    "extract_topics", "initialize_text_chat" }

\* { ...task, ...updates }
Merge(r, u) == [f \in DOMAIN r |-> IF f \in DOMAIN u THEN u[f] ELSE r[f]]

NoFileUpdate == [type |-> "undefined", state |-> "undefined"]

\* relatedOutput ? { type: relatedOutput, updates: { state } } : undefined
FileUpdate(relatedOutput, st) ==
  IF relatedOutput = "" THEN NoFileUpdate ELSE [type |-> relatedOutput, state |-> st]

\* the map over the tasks building the updated task without its context
MapTasks_dropContext(tasks, taskId, updates) ==
  [i \in 1..Len(tasks) |->
     IF tasks[i].id = taskId
     THEN [Merge(tasks[i], updates) EXCEPT !.context = NULL]
     ELSE tasks[i]]

\* updatedManifest.tasks.map(...): { ...task, ...updates } for the task with
\* the id, every other task as it is
RECURSIVE MapTasks(_, _, _)
MapTasks(tasks, taskId, updates) ==
  IF tasks = <<>> THEN <<>>
  ELSE <<IF Head(tasks).id = taskId THEN Merge(Head(tasks), updates) ELSE Head(tasks)>>
       \o MapTasks(Tail(tasks), taskId, updates)

RECURSIVE MapFiles(_, _)
MapFiles(files, fu) ==
  IF files = <<>> THEN <<>>
  ELSE <<IF Head(files).type = fu.type THEN [Head(files) EXCEPT !.state = fu.state]
         ELSE Head(files)>>
       \o MapFiles(Tail(files), fu)

\* updateTask that forgets the related file item
updateTask_dropFileUpdate(m, taskId, updates, fu) ==
  [m EXCEPT !.tasks = MapTasks(m.tasks, taskId, updates)]

updateTask(m, taskId, updates, fu) ==
  [m EXCEPT !.tasks = MapTasks(m.tasks, taskId, updates),
            !.fileManifest = IF fu = NoFileUpdate THEN m.fileManifest
                             ELSE MapFiles(m.fileManifest, fu)]

\* ManifestSchema.parse in readManifest: TaskSchema.percent is min(0).max(100)
SchemaValid(m) ==
  \A i \in 1..Len(m.tasks) : m.tasks[i].percent >= 0 /\ m.tasks[i].percent <= 100

\* ------------------------------------------------------------------------
\* Library index (src/updateLibrary.ts)
\* ------------------------------------------------------------------------
\* the error check made before the purged check
determineContentState_errorFirst(tasks, fileManifest) ==
  LET m == [tasks |-> tasks, fileManifest |-> fileManifest]
      allTasksDone == \A i \in 1..Len(tasks) : tasks[i].state = "done"
      hasErrorTasks == \E i \in 1..Len(tasks) : tasks[i].state = "error"
      otherTasksStarted == \E i \in 1..Len(tasks) :
                              tasks[i].id # "fetch_info_json" /\ tasks[i].state # "queued"
  IN IF hasErrorTasks THEN "error"
     ELSE IF FindFile(m, "original_media").state = "purged" THEN "purged"
     ELSE IF allTasksDone THEN "complete"
     ELSE IF HasTask(m, "fetch_info_json") /\ ~otherTasksStarted THEN "ingesting"
     ELSE "processing"

determineContentState(tasks, fileManifest) ==
  LET m == [tasks |-> tasks, fileManifest |-> fileManifest]
      allTasksDone == \A i \in 1..Len(tasks) : tasks[i].state = "done"
      hasErrorTasks == \E i \in 1..Len(tasks) : tasks[i].state = "error"
      otherTasksStarted == \E i \in 1..Len(tasks) :
                              tasks[i].id # "fetch_info_json" /\ tasks[i].state # "queued"
  IN IF FindFile(m, "original_media").state = "purged" THEN "purged"
     ELSE IF hasErrorTasks THEN "error"
     ELSE IF allTasksDone THEN "complete"
     ELSE IF HasTask(m, "fetch_info_json") /\ ~otherTasksStarted THEN "ingesting"
     ELSE "processing"

\* the index holds no entry for the bucket
NoEntry == [state |-> "absent", hasOriginalMedia |-> FALSE]

\* the bucket's entry after updateLibrary has scanned the persisted manifest:
\* the state and the hasOriginalMedia flag extractLibraryItem derives, or no
\* entry if the manifest fails validation
updateLibrary(m) ==
  IF SchemaValid(m)
  THEN [state |-> determineContentState(m.tasks, m.fileManifest),
        hasOriginalMedia |-> FindFile(m, "original_media").state \in {"ready", "processing"}]
  ELSE NoEntry

\* ------------------------------------------------------------------------
\* State
\* ------------------------------------------------------------------------
VARIABLES
  disk,          \* the persisted manifest.json of the bucket
  mem,           \* updatedManifest, the executor's in-memory copy
  pc,            \* the scheduler process: idle | awaiting | stopped
                 \* (evaluator specification: eval | evaluated)
  worker,        \* the child process: none | alive | spawnfail | closepending
  stderrBuffer,  \* stderr text accumulated by the executor
  run,           \* bookkeeping of the current / last executor run
  workerDoc,     \* the manifest copy the worker read at its start
  wphase,        \* the worker's own manifest protocol: start | read | wrote
  dirty,         \* the worker wrote manifest.json after the executor's last write
  library,       \* the bucket's entry in library.json: its state and its
                 \* hasOriginalMedia flag
  cli,           \* what the scheduler command gave its caller: the value
                 \* the entry point's promise settled with and the exit code
  buckets,       \* run-all-buckets: the directories of the library, in order
  cursor,        \* run-all-buckets: the directory the loop is at
  finished,      \* run-all-buckets: the documents of the directories done
  store,         \* library: the buckets under storage/content-studio
  index,         \* library: library.json
  purge,         \* resource manager: the options, the files and the result
                 \* of one purgeContent call
  procs,         \* two scheduler processes on one bucket: each one's position,
                 \* in-memory copy and task
  pass           \* one evaluator pass, rule by rule: the rules not yet visited,
                 \* the new tasks so far and the document the pass began with

\* the variables of the iteration over all buckets
allVars == <<buckets, cursor, finished>>

\* the variables of the library index
libVars == <<store, index>>

\* what the scheduler of one bucket leaves alone
ext == <<allVars, libVars, purge, procs, pass>>

vars == <<disk, mem, pc, worker, stderrBuffer, run, workerDoc, wphase, dirty,
          library, cli, ext>>

NoDoc == [tasks |-> <<>>, fileManifest |-> <<>>]

\* no evaluator pass is being followed rule by rule
NoPass == [phase |-> "none", todo |-> {}, newTasks |-> <<>>, start |-> NoDoc]

NoRun == [task |-> "none", output |-> "none", outcome |-> "none", code |-> 0,
          evals |-> 0, rebuilds |-> 0, reports |-> 0, chunks |-> 0,
          nTasks |-> 0, nFiles |-> 0, flush |-> FALSE, writeBack |-> FALSE]

\* no iteration over the buckets is under way
NoAll == buckets = <<>> /\ cursor = 0 /\ finished = <<>>

\* library.json does not exist
NoIndex == [exists |-> FALSE, items |-> <<>>, last |-> "none"]

\* the library is not looked at
NoLib == store = <<>> /\ index = NoIndex

\* no purge is asked for
NoPurge ==
  [phase |-> "none", keepThumbnail |-> FALSE, reason |-> "", mediaExists |-> FALSE,
   thumbnailExists |-> FALSE, result |-> "none"]

\* no second scheduler process is looked at
NoProcs == <<>>

\* the scheduler command is running: its promise is pending, no exit code yet
Running == [result |-> "pending", exitCode |-> NULL]

\* runNextTask resolved with false: runAllTasks leaves its loop, the
\* command-line interface prints and the process ends with exit code 0
ReturnedFalse == [result |-> "false", exitCode |-> 0]

\* runNextTask resolved with true: runAllTasks calls it again
ReturnedTrue == [result |-> "true", exitCode |-> NULL]

\* ------------------------------------------------------------------------
\* Documents the evaluator is applied to
\* ------------------------------------------------------------------------
\* artifact types some rule's trigger reads, in catalogue order
TriggerTypes ==
  << "info_json", "original_media", "extracted_audio", "transcript_en_vtt",
     "transcript_zh_vtt", "transcript_merged_vtt", "text_content_md",
     "summary_rich_json", "summary_md" >>

\* only the media file is ever purged
FileStatesOf(t) ==
  IF t = "original_media" THEN FileItemStateEnum ELSE FileItemStateEnum \ {"purged"}

\* the media type is recorded in the metadata of a media file that has been
\* produced; a placeholder carries no metadata
MediaTypesOf(t, s) ==
  IF t = "original_media" /\ s \in {"ready", "purged"}
  THEN MediaTypeEnum \cup {NULL} ELSE {NULL}

\* the path of an artifact that is in the document: a media file that was
\* downloaded keeps the extension of its container, every other artifact is
\* at the default path of its type
PathOf(t, mt) ==
  IF t = "original_media" /\ mt = "local" THEN "original/media.webm"
  ELSE getDefaultPathForFileType(t)

\* the artifacts of one type
ArtifactsOf(t) ==
  UNION {{[type |-> t, state |-> s, mediaType |-> mt, path |-> PathOf(t, mt),
           derivedFrom |-> <<>>, version |-> 1] : mt \in MediaTypesOf(t, s)} :
           s \in FileStatesOf(t)}

\* the artifact lists with the chosen types present, one artifact per type
RECURSIVE FilesOver(_, _)
FilesOver(S, k) ==
  IF k > Len(TriggerTypes) THEN {<<>>}
  ELSE IF TriggerTypes[k] \notin S THEN FilesOver(S, k + 1)
  ELSE {<<a>> \o rest : a \in ArtifactsOf(TriggerTypes[k]),
                          rest \in FilesOver(S, k + 1)}

TypeSet == {TriggerTypes[k] : k \in 1..Len(TriggerTypes)}

RECURSIVE Reverse(_)
Reverse(q) == IF q = <<>> THEN <<>> ELSE Append(Reverse(Tail(q)), Head(q))

\* at most MaxFiles artifacts in catalogue order; two artifacts also in the
\* opposite order
EvalFiles ==
  LET ordered == UNION {FilesOver(S, 1) :
                          S \in {T \in SUBSET TypeSet : Cardinality(T) <= MaxFiles}}
  IN ordered \cup {Reverse(f) : f \in {g \in ordered : Len(g) = 2}}

\* timestamps: one written before the scheduler process started, and the
\* value of new Date() while it runs
Earlier == "2024-01-01T00:00:00.000Z"

Now == "2024-01-02T00:00:00.000Z"

\* the context ingest() gives the fetch_info_json task: { url }
UrlContext == "url"

Task(id, st, out) ==
  [id |-> id, state |-> st, percent |-> IF st = "done" THEN 100 ELSE 0,
   relatedOutput |-> out, startedAt |-> IF st = "queued" THEN NULL ELSE Earlier,
   error |-> IF st = "error" THEN "failed" ELSE NULL,
   context |-> IF id = "fetch_info_json" THEN UrlContext
               ELSE IF id \in RuleIds THEN RuleContext(id) ELSE NULL]

\* every task id of the pipeline: the ingest task and the rules' tasks
TaskIdSeq == <<"fetch_info_json">> \o TASK_DEPENDENCIES

TaskStatesOf(id) == IF id = "fetch_info_json" THEN TaskStateEnum ELSE {"queued"}

TaskOutputOf(id) == IF id = "fetch_info_json" THEN "info_json" ELSE RuleOutput(id)

RECURSIVE TasksOver(_, _)
TasksOver(S, k) ==
  IF k > Len(TaskIdSeq) THEN {<<>>}
  ELSE IF TaskIdSeq[k] \notin S THEN TasksOver(S, k + 1)
  ELSE {<<Task(TaskIdSeq[k], st, TaskOutputOf(TaskIdSeq[k]))>> \o rest :
          st \in TaskStatesOf(TaskIdSeq[k]), rest \in TasksOver(S, k + 1)}

\* at most MaxExisting tasks already in the document
EvalTasks ==
  UNION {TasksOver(S, 1) :
           S \in {T \in SUBSET (RuleIds \cup {"fetch_info_json"}) :
                     Cardinality(T) <= MaxExisting}}

EvalInit ==
  /\ \E t \in EvalTasks, f \in EvalFiles : disk = [tasks |-> t, fileManifest |-> f]
  /\ mem = NoDoc
  /\ pc = "eval"
  /\ worker = "none"
  /\ stderrBuffer = ""
  /\ run = NoRun
  /\ workerDoc = NoDoc
  /\ wphase = "start"
  /\ dirty = FALSE
  /\ library = NoEntry
  /\ cli = Running
  /\ NoAll
  /\ NoLib
  /\ purge = NoPurge
  /\ procs = NoProcs
  /\ pass = NoPass

\* one call of updateTaskDependencies on the document
Evaluate ==
  /\ pc \in {"eval", "evaluated"}
  /\ disk' = updateTaskDependencies(disk)
  /\ pc' = "evaluated"
  /\ UNCHANGED <<mem, worker, stderrBuffer, run, workerDoc, wphase, dirty, library,
                 cli, ext>>

EvalNext == Evaluate

SpecEval == EvalInit /\ [][EvalNext]_vars

\* ------------------------------------------------------------------------
\* Scheduler and executor (src/run_task.ts)
\* ------------------------------------------------------------------------
\* percent values a worker prints as {"percent": N}
ReportedPercents == {55, 100, 150}

\* exit codes of a worker that was spawned
ExitCodes == {0, 1}

\* stderr chunks of a worker
StderrChunks == {"disk full"}

\* code of the 'close' event that follows 'error' when spawn failed (-ENOENT)
SpawnFailCode == 0 - 2

SpawnErrorMessage == "spawn ENOENT"

NoWorkerMessage(taskId) == "No worker configuration found for task " \o taskId

ExitMessage(code) == "Worker exited with code " \o ToString(code)

\* the document ingest() writes (src/ingest.ts)
IngestDoc ==
  [tasks |-> <<[id |-> "fetch_info_json", state |-> "queued", percent |-> 0,
                relatedOutput |-> "original/info.json", startedAt |-> NULL,
                error |-> NULL, context |-> UrlContext]>>,
   fileManifest |-> <<>>]

\* a task that ran before and that an external actor has put back to queued
ResetTask(id, out) == [Task(id, "queued", out) EXCEPT !.startedAt = Earlier]

\* documents a bucket holds when a scheduler process starts on it
SchedTasks ==
  {<<>>, <<ResetTask("fetch_info_json", "info_json")>>}
    \cup {<<Task("fetch_info_json", st, "info_json")>> : st \in {"queued", "done"}}

\* the artifacts present before the first run: none, or the inputs of one rule
SchedSources ==
  { {}, {"info_json"}, {"original_media"}, {"summary_md"}, {"text_content_md"},
    {"transcript_en_vtt", "transcript_zh_vtt"} }

\* the text and the plain summary are both there
TextAndSummary ==
  {f \in FilesOver({"text_content_md", "summary_md"}, 1) :
     \A i \in 1..Len(f) : f[i].state = "ready"}

SchedFiles ==
  LET ordered == UNION {FilesOver(S, 1) : S \in SchedSources}
  IN ordered \cup {Reverse(f) : f \in ordered} \cup TextAndSummary

SchedDocs ==
  {IngestDoc} \cup
  {[tasks |-> t, fileManifest |-> f] : t \in SchedTasks, f \in SchedFiles}

Init ==
  /\ disk \in SchedDocs
  /\ mem = NoDoc
  /\ pc = "idle"
  /\ worker = "none"
  /\ stderrBuffer = ""
  /\ run = NoRun
  /\ workerDoc = NoDoc
  /\ wphase = "start"
  /\ dirty = FALSE
  /\ library = updateLibrary(disk)
  /\ cli = Running
  /\ NoAll
  /\ NoLib
  /\ purge = NoPurge
  /\ procs = NoProcs
  /\ pass = NoPass

\* picking the newest queued task
FirstQueued_last(m) ==
  CHOOSE i \in 1..Len(m.tasks) :
    /\ m.tasks[i].state = "queued"
    /\ \A j \in 1..Len(m.tasks) : m.tasks[j].state = "queued" => j <= i

FirstQueued(m) == Min({i \in 1..Len(m.tasks) : m.tasks[i].state = "queued"})

\* the missing-configuration branch putting the related artifact in error too
MissingWorker_fileError(manifest, task) ==
  updateTask(manifest, task.id,
             [state |-> "error", error |-> NoWorkerMessage(task.id)],
             FileUpdate(task.relatedOutput, "error"))

\* executeWorker when TASK_WORKER_MAP has no entry for the task: the document
\* it writes
MissingWorker(manifest, task) ==
  updateTask(manifest, task.id,
             [state |-> "error", error |-> NoWorkerMessage(task.id)],
             NoFileUpdate)

\* the read failure propagating to the caller of runNextTask
ReadFailure_rethrow ==
  /\ pc' = "thrown"
  /\ run' = NoRun
  /\ cli' = [result |-> "rejected", exitCode |-> 1]
  /\ UNCHANGED <<disk, mem, worker, library>>

\* readManifest threw: the catch block of runNextTask logs the error and
\* returns false
ReadFailure ==
  /\ pc' = "stopped"
  /\ run' = NoRun
  /\ cli' = ReturnedFalse
  /\ UNCHANGED <<disk, mem, worker, library>>

\* runNextTask up to the point where it awaits the worker: read, evaluate,
\* write back, pick the first queued task and start executeWorker on it
runNextTask ==
  /\ pc = "idle"
  /\ worker = "none"
  /\ stderrBuffer' = ""
  /\ workerDoc' = NoDoc
  /\ wphase' = "start"
  /\ dirty' = FALSE
  /\ UNCHANGED ext
  /\ IF ~SchemaValid(disk)
     THEN ReadFailure
     ELSE LET updatedManifest == updateTaskDependencies(disk)
          IN IF \A i \in 1..Len(updatedManifest.tasks) :
                     updatedManifest.tasks[i].state # "queued"
             THEN \* no queued task: return false
                  /\ disk' = updatedManifest
                  /\ pc' = "stopped"
                  /\ run' = [NoRun EXCEPT !.writeBack = (updatedManifest # disk)]
                  /\ cli' = ReturnedFalse
                  /\ UNCHANGED <<mem, worker, library>>
             ELSE LET task == updatedManifest.tasks[FirstQueued(updatedManifest)]
                      started == [NoRun EXCEPT !.writeBack = (updatedManifest # disk),
                                               !.task = task.id,
                                               !.output = task.relatedOutput,
                                               !.nTasks = Len(updatedManifest.tasks),
                                               !.nFiles = Len(updatedManifest.fileManifest)]
                  IN IF task.id \notin TASK_WORKER_MAP
                     THEN \* executeWorker: no worker configuration
                          /\ mem' = MissingWorker(updatedManifest, task)
                          /\ disk' = mem'
                          /\ library' = updateLibrary(disk')
                          /\ run' = [started EXCEPT !.outcome = "nomap", !.rebuilds = 1]
                          /\ pc' = "idle"
                          /\ worker' = "none"
                          /\ cli' = ReturnedTrue
                     ELSE \* executeWorker: running / processing, write, spawn
                          /\ mem' = updateTask(updatedManifest, task.id,
                                       [state |-> "running", startedAt |-> Now, percent |-> 0],
                                       FileUpdate(task.relatedOutput, "processing"))
                          /\ disk' = mem'
                          /\ run' = [started EXCEPT !.outcome = "active"]
                          /\ pc' = "awaiting"
                          /\ worker' \in {"alive", "spawnfail"}
                          /\ cli' = Running
                          /\ UNCHANGED library

\* the stdout handler persisting the document on every progress object
StdoutData_everyReport(p, w) ==
  /\ worker = "alive"
  /\ run.reports < MaxReports
  /\ mem' = updateTask(mem, run.task, [percent |-> p], NoFileUpdate)
  /\ run' = [run EXCEPT !.reports = @ + 1, !.flush = w]
  /\ disk' = mem'
  /\ dirty' = FALSE
  /\ UNCHANGED <<pc, worker, stderrBuffer, workerDoc, wphase, library, cli, ext>>

\* worker.stdout.on('data'): one progress object {"percent": p, "write": w}
StdoutData(p, w) ==
  /\ worker = "alive"
  /\ run.reports < MaxReports
  /\ mem' = updateTask(mem, run.task, [percent |-> p], NoFileUpdate)
  /\ run' = [run EXCEPT !.reports = @ + 1, !.flush = w]
  /\ IF p % 10 = 0 \/ w
     THEN disk' = mem' /\ dirty' = FALSE
     ELSE UNCHANGED <<disk, dirty>>
  /\ UNCHANGED <<pc, worker, stderrBuffer, workerDoc, wphase, library, cli, ext>>

\* worker.stderr.on('data')
StderrData(chunk) ==
  /\ worker = "alive"
  /\ run.chunks < MaxChunks
  /\ stderrBuffer' = stderrBuffer \o chunk
  /\ run' = [run EXCEPT !.chunks = @ + 1]
  /\ UNCHANGED <<disk, mem, pc, worker, workerDoc, wphase, dirty, library, cli,
                 ext>>

\* the close handler without the post-success evaluation
CloseHandler_noEval(code) ==
  LET final == IF code = 0
               THEN updateTask(mem, run.task,
                      [state |-> "done", percent |-> 100, error |-> NULL],
                      FileUpdate(run.output, "ready"))
               ELSE updateTask(mem, run.task,
                      [state |-> "error",
                       error |-> IF stderrBuffer # "" THEN stderrBuffer
                                 ELSE ExitMessage(code)],
                      FileUpdate(run.output, "error"))
  IN /\ mem' = final
     /\ disk' = mem'
     /\ dirty' = FALSE
     /\ library' = updateLibrary(disk')
     /\ worker' = "none"
     /\ run' = [run EXCEPT !.outcome = IF worker = "closepending" THEN @
                                       ELSE IF code = 0 THEN "done" ELSE "failed",
                           !.code = code,
                           !.rebuilds = @ + 1,
                           !.reports = 0, !.chunks = 0, !.flush = FALSE]

\* the body of worker.on('close') for exit code `code`
CloseHandler(code) ==
  LET final == IF code = 0
               THEN updateTask(mem, run.task,
                      [state |-> "done", percent |-> 100, error |-> NULL],
                      FileUpdate(run.output, "ready"))
               ELSE updateTask(mem, run.task,
                      [state |-> "error",
                       error |-> IF stderrBuffer # "" THEN stderrBuffer
                                 ELSE ExitMessage(code)],
                      FileUpdate(run.output, "error"))
  IN /\ mem' = IF code = 0 THEN updateTaskDependencies(final) ELSE final
     /\ disk' = mem'
     /\ dirty' = FALSE
     /\ library' = updateLibrary(disk')
     /\ worker' = "none"
     /\ run' = [run EXCEPT !.outcome = IF worker = "closepending" THEN @
                                       ELSE IF code = 0 THEN "done" ELSE "failed",
                           !.code = code,
                           !.evals = IF code = 0 THEN @ + 1 ELSE @,
                           !.rebuilds = @ + 1,
                           !.reports = 0, !.chunks = 0, !.flush = FALSE]

\* a close that puts the task of a failed worker back in the queue
WorkerClose_retry(code) ==
  /\ worker = "alive"
  /\ IF code = 0
     THEN CloseHandler(code)
     ELSE /\ mem' = updateTask(mem, run.task, [state |-> "queued"],
                               FileUpdate(run.output, "queued"))
          /\ disk' = mem'
          /\ dirty' = FALSE
          /\ library' = updateLibrary(disk')
          /\ worker' = "none"
          /\ run' = [run EXCEPT !.outcome = "failed", !.code = code,
                                !.rebuilds = @ + 1,
                                !.reports = 0, !.chunks = 0, !.flush = FALSE]
  /\ pc' = "idle"
  /\ cli' = ReturnedTrue
  /\ UNCHANGED <<stderrBuffer, workerDoc, wphase, ext>>

\* the worker process exits and its stdio closes
WorkerClose(code) ==
  /\ worker = "alive"
  /\ CloseHandler(code)
  /\ pc' = IF code = 0 THEN "idle" ELSE "stopped"
  /\ cli' = IF code = 0 THEN ReturnedTrue ELSE ReturnedFalse
  /\ UNCHANGED <<stderrBuffer, workerDoc, wphase, ext>>

\* the error handler rebuilding the index before it writes the document
WorkerError_staleRebuild ==
  /\ worker = "spawnfail"
  /\ mem' = updateTask(mem, run.task,
               [state |-> "error", error |-> SpawnErrorMessage],
               FileUpdate(run.output, "error"))
  /\ disk' = mem'
  /\ dirty' = FALSE
  /\ library' = updateLibrary(disk)
  /\ run' = [run EXCEPT !.outcome = "spawnerr", !.rebuilds = @ + 1]
  /\ worker' = "closepending"
  /\ pc' = "stopped"
  /\ cli' = ReturnedFalse
  /\ UNCHANGED <<stderrBuffer, workerDoc, wphase, ext>>

\* worker.on('error'): the process could not be spawned
WorkerError ==
  /\ worker = "spawnfail"
  /\ mem' = updateTask(mem, run.task,
               [state |-> "error", error |-> SpawnErrorMessage],
               FileUpdate(run.output, "error"))
  /\ disk' = mem'
  /\ dirty' = FALSE
  /\ library' = updateLibrary(disk')
  /\ run' = [run EXCEPT !.outcome = "spawnerr", !.rebuilds = @ + 1]
  /\ worker' = "closepending"
  /\ pc' = "stopped"
  /\ cli' = ReturnedFalse
  /\ UNCHANGED <<stderrBuffer, workerDoc, wphase, ext>>

\* the 'close' event Node emits after 'error' of a failed spawn; the promise
\* is already rejected, so reject() here changes nothing
CloseAfterError ==
  /\ worker = "closepending"
  /\ CloseHandler(SpawnFailCode)
  /\ UNCHANGED <<pc, stderrBuffer, workerDoc, wphase, cli, ext>>

\* ------------------------------------------------------------------------
\* The generate_rich_summary worker (workers/ai-summary/index.ts)
\* ------------------------------------------------------------------------
RichSummaryPath == "summaries/rich_summary.json"

ReadyFile(t, p, textContentPath) ==
  [type |-> t, state |-> "ready", mediaType |-> NULL, path |-> p,
   derivedFrom |-> <<textContentPath>>, version |-> 1]

PlainSummaryPath == "summaries/summary.md"

\* textContentFile in main(): the first ready text_content_md artifact
textContentFile(manifest) ==
  LET idx == {i \in 1..Len(manifest.fileManifest) :
                /\ manifest.fileManifest[i].type = "text_content_md"
                /\ manifest.fileManifest[i].state = "ready"}
  IN IF idx = {} THEN Undefined ELSE manifest.fileManifest[Min(idx)]

\* replace the first artifact of the type, or push it
RECURSIVE ReplaceOrPush(_, _)
ReplaceOrPush(files, item) ==
  IF files = <<>> THEN <<item>>
  ELSE IF Head(files).type = item.type THEN <<item>> \o Tail(files)
  ELSE <<Head(files)>> \o ReplaceOrPush(Tail(files), item)

\* the document updateManifest writes, from the copy main() read
updateManifest(manifest) ==
  LET tasks == IF HasTask(manifest, "generate_rich_summary")
               THEN LET i == Min({j \in 1..Len(manifest.tasks) :
                                    manifest.tasks[j].id = "generate_rich_summary"})
                    IN [manifest.tasks EXCEPT ![i] =
                          [@ EXCEPT !.state = "done", !.percent = 100,
                                    !.relatedOutput = RichSummaryPath]]
               ELSE Append(manifest.tasks,
                      [id |-> "generate_rich_summary", state |-> "done", percent |-> 100,
                       relatedOutput |-> RichSummaryPath, startedAt |-> Now,
                       error |-> NULL, context |-> "model=deepseek-chat"])
  IN [manifest EXCEPT
        !.tasks = tasks,
        !.fileManifest =
           ReplaceOrPush(
             ReplaceOrPush(manifest.fileManifest,
                           ReadyFile("summary_rich_json", RichSummaryPath,
                                     textContentFile(manifest).path)),
             ReadyFile("summary_md", PlainSummaryPath, textContentFile(manifest).path))]

\* main(): read and parse manifest.json
WorkerRead ==
  /\ worker = "alive"
  /\ run.task = "generate_rich_summary"
  /\ wphase = "start"
  /\ workerDoc' = disk
  /\ wphase' = "read"
  /\ UNCHANGED <<disk, mem, pc, worker, stderrBuffer, run, dirty, library, cli,
                 ext>>

\* main(): updateManifest(...) after the summaries were generated
WorkerWrite ==
  /\ worker = "alive"
  /\ wphase = "read"
  /\ textContentFile(workerDoc) # Undefined
  /\ disk' = updateManifest(workerDoc)
  /\ dirty' = TRUE
  /\ wphase' = "wrote"
  /\ UNCHANGED <<mem, pc, worker, stderrBuffer, run, workerDoc, library, cli,
                 ext>>

\* a later invocation of the scheduler command on the bucket
Restart ==
  /\ pc = "stopped"
  /\ worker = "none"
  /\ pc' = "idle"
  /\ cli' = Running
  /\ UNCHANGED <<disk, mem, worker, stderrBuffer, run, workerDoc, wphase, dirty,
                 library, ext>>

Next ==
  \/ runNextTask
  \/ \E p \in ReportedPercents, w \in BOOLEAN : StdoutData(p, w)
  \/ \E chunk \in StderrChunks : StderrData(chunk)
  \/ \E code \in ExitCodes : WorkerClose(code)
  \/ WorkerError
  \/ CloseAfterError
  \/ WorkerRead
  \/ WorkerWrite
  \/ Restart

Spec == Init /\ [][Next]_vars

\* ------------------------------------------------------------------------
\* Iteration over all buckets (runAllBucketTasks in src/run_task.ts)
\* ------------------------------------------------------------------------
\* a manifest.json that fails ManifestSchema.parse: an earlier failed run
\* left a percent above 100 in it
BadDoc ==
  [tasks |-> <<[Task("fetch_info_json", "error", "info_json") EXCEPT !.percent = 150]>>,
   fileManifest |-> <<>>]

\* the documents of the buckets of the library
AllDocs ==
  {IngestDoc, BadDoc} \cup {[tasks |-> <<>>, fileManifest |-> f] : f \in TextAndSummary}

\* a directory under storage/content-studio, with or without a manifest.json
Directories ==
  {[exists |-> TRUE, doc |-> d] : d \in AllDocs} \cup {[exists |-> FALSE, doc |-> NoDoc]}

RECURSIVE SeqsUpTo(_, _)
SeqsUpTo(S, n) ==
  IF n = 0 THEN {<<>>}
  ELSE SeqsUpTo(S, n - 1) \cup
       {Append(q, x) : q \in {r \in SeqsUpTo(S, n - 1) : Len(r) = n - 1}, x \in S}

\* `all`: runAllBucketTasks has listed the directories
InitAll ==
  /\ buckets \in SeqsUpTo(Directories, MaxBuckets) \ {<<>>}
  /\ cursor = 0
  /\ finished = <<>>
  /\ disk = NoDoc
  /\ mem = NoDoc
  /\ pc = "stopped"
  /\ worker = "none"
  /\ stderrBuffer = ""
  /\ run = NoRun
  /\ workerDoc = NoDoc
  /\ wphase = "start"
  /\ dirty = FALSE
  /\ library = NoEntry
  /\ cli = Running
  /\ NoLib
  /\ purge = NoPurge
  /\ procs = NoProcs
  /\ pass = NoPass

\* one turn of the for-loop: runAllTasks on the directory before has
\* returned; go on to the next directory, calling runAllTasks on it if it
\* has a manifest.json, or leave the loop after the last one
NextDirectory ==
  /\ pc = "stopped"
  /\ worker = "none"
  /\ cursor <= Len(buckets)
  /\ cursor' = cursor + 1
  /\ finished' = IF cursor = 0 THEN finished ELSE Append(finished, disk)
  /\ IF cursor = Len(buckets)
     THEN \* 'Completed processing all buckets', 'All tasks completed'
          /\ pc' = "completed"
          /\ disk' = NoDoc
          /\ library' = NoEntry
          /\ cli' = [result |-> "resolved", exitCode |-> 0]
     ELSE /\ disk' = buckets[cursor + 1].doc
          /\ pc' = IF buckets[cursor + 1].exists THEN "idle" ELSE "stopped"
          /\ library' = IF buckets[cursor + 1].exists THEN updateLibrary(disk')
                        ELSE NoEntry
          /\ cli' = Running
  /\ mem' = NoDoc
  /\ run' = NoRun
  /\ stderrBuffer' = ""
  /\ workerDoc' = NoDoc
  /\ wphase' = "start"
  /\ dirty' = FALSE
  /\ UNCHANGED <<worker, buckets, libVars, purge, procs, pass>>

\* the steps of the iteration; what a worker prints while it runs changes
\* the percent and the error text of its own task only and is left to Spec
NextAll ==
  \/ NextDirectory
  \/ runNextTask
  \/ \E code \in ExitCodes : WorkerClose(code)
  \/ WorkerError
  \/ CloseAfterError
  \/ WorkerRead
  \/ WorkerWrite

SpecAll == InitAll /\ [][NextAll]_vars

\* ------------------------------------------------------------------------
\* The library index over all buckets (src/updateLibrary.ts, src/ingest.ts)
\* ------------------------------------------------------------------------
SourceUrl == "https://youtu.be/abc"

\* the title in the bucket's info.json
InfoTitle == "My Video"

\* the highlights of the rich summary, joined
Highlights == "first point second point"

\* the topics the topic extractor found
Topics == <<"ai">>

VideoQualityEnum == {"best", "1080p", "720p", "360p"}

getPlatformFromUrl(url) == IF url = SourceUrl THEN "youtube" ELSE "other"

\* an artifact a worker has produced
Produced(t) ==
  [type |-> t, state |-> "ready",
   mediaType |-> IF t = "original_media" THEN "local" ELSE NULL,
   path |-> getDefaultPathForFileType(t), derivedFrom |-> <<>>, version |-> 1]

\* the document of a bucket whose pipeline has run: every task is done
ProcessedDoc ==
  [tasks |-> <<Task("fetch_info_json", "done", "info_json"),
               Task("download_media", "done", "original_media"),
               Task("generate_rich_summary", "done", "summary_rich_json"),
               Task("extract_topics", "done", "topic_tags_json")>>,
   fileManifest |-> <<Produced("info_json"), Produced("original_media"),
                      Produced("summary_rich_json"), Produced("topic_tags_json")>>]

\* the artifact files a rebuild opens
IndexedFiles == {"info_json", "summary_rich_json", "topic_tags_json"}

\* the bucket ingest() creates: manifest.json parses and validates, no artifact
\* file is there; `quality` is metadata.quality of the media artifact,
\* `tagsHashId` is metadata.hashId of the topic tags artifact
NewBucket(url) ==
  [manifest |-> "valid", m |-> IngestDoc, url |-> url, createdAt |-> Now,
   quality |-> NULL, tagsHashId |-> "", readable |-> {}]

\* what `existingItemsMap.get(hashId)` gives when the index has no such item
NoItem ==
  [hashId |-> 0, title |-> NULL, platform |-> NULL, quality |-> NULL,
   createdAt |-> NULL, tags |-> <<>>, summary |-> NULL, state |-> NULL,
   hasOriginalMedia |-> FALSE]

\* existingItemsMap: the last item of the index with the hashId
existingItem(items, hashId) ==
  LET idx == {i \in 1..Len(items) : items[i].hashId = hashId}
  IN IF idx = {} THEN NoItem
     ELSE items[CHOOSE i \in idx : \A j \in idx : j <= i]

\* a JavaScript `x || y` on strings
OrElse(x, y) == IF x \in {NULL, ""} THEN y ELSE x

\* the info.json of the bucket can be read and gives a title
TitleExtracted(b) ==
  FindFile(b.m, "info_json").state = "ready" /\ "info_json" \in b.readable

\* extractTags finds the tags file: it looks under the directory named by
\* metadata.hashId of the artifact
TagsExtracted(b) ==
  /\ FindFile(b.m, "topic_tags_json").state = "ready"
  /\ b.tagsHashId = "self"
  /\ "topic_tags_json" \in b.readable

\* the rich summary of the bucket can be read and has highlights
SummaryExtracted(b) ==
  FindFile(b.m, "summary_rich_json").state = "ready" /\ "summary_rich_json" \in b.readable

\* the media artifact has metadata with a quality string
QualityExtracted(b) == HasFile(b.m, "original_media") /\ b.quality # NULL

\* extractLibraryItem with the state of the previous entry kept
extractLibraryItem_keepState(b, hashId, existing) ==
  [hashId |-> hashId,
   title |-> IF TitleExtracted(b) THEN InfoTitle ELSE OrElse(b.url, ""),
   platform |-> OrElse(existing.platform, getPlatformFromUrl(b.url)),
   quality |-> IF QualityExtracted(b)
               THEN IF b.quality \in VideoQualityEnum THEN b.quality ELSE "best"
               ELSE OrElse(existing.quality, "best"),
   createdAt |-> OrElse(existing.createdAt, b.createdAt),
   tags |-> IF TagsExtracted(b) THEN Topics ELSE existing.tags,
   summary |-> IF SummaryExtracted(b) THEN Highlights ELSE OrElse(existing.summary, ""),
   state |-> OrElse(existing.state, determineContentState(b.m.tasks, b.m.fileManifest)),
   hasOriginalMedia |-> FindFile(b.m, "original_media").state \in {"ready", "processing"}]

\* extractLibraryItem(manifest, existingItem) for the bucket `hashId`; the
\* duration, thumbnail and disk size of the entry are not followed
extractLibraryItem(b, hashId, existing) ==
  [hashId |-> hashId,
   title |-> IF TitleExtracted(b) THEN InfoTitle ELSE OrElse(b.url, ""),
   platform |-> OrElse(existing.platform, getPlatformFromUrl(b.url)),
   quality |-> IF QualityExtracted(b)
               THEN IF b.quality \in VideoQualityEnum THEN b.quality ELSE "best"
               ELSE OrElse(existing.quality, "best"),
   createdAt |-> OrElse(existing.createdAt, b.createdAt),
   tags |-> IF TagsExtracted(b) THEN Topics ELSE existing.tags,
   summary |-> IF SummaryExtracted(b) THEN Highlights ELSE OrElse(existing.summary, ""),
   state |-> determineContentState(b.m.tasks, b.m.fileManifest),
   hasOriginalMedia |-> FindFile(b.m, "original_media").state \in {"ready", "processing"}]

\* the loop over the manifests with a bucket whose document fails validation
\* given an entry all the same
RECURSIVE updatedItems_keepInvalid(_, _, _)
updatedItems_keepInvalid(st, items, k) ==
  IF k > Len(st) THEN <<>>
  ELSE (IF st[k].manifest = "unparseable" THEN <<>>
        ELSE <<extractLibraryItem(st[k], k, existingItem(items, k))>>)
       \o updatedItems_keepInvalid(st, items, k + 1)

\* the loop of updateLibrary over the manifest.json files from bucket k on:
\* JSON.parse failing lands in the outer catch, ManifestSchema.parse failing
\* in the inner one (continue); neither pushes an item
RECURSIVE updatedItems(_, _, _)
updatedItems(st, items, k) ==
  IF k > Len(st) THEN <<>>
  ELSE (IF st[k].manifest = "unparseable" THEN <<>>
        ELSE IF st[k].manifest = "invalid" THEN <<>>
        ELSE <<extractLibraryItem(st[k], k, existingItem(items, k))>>)
       \o updatedItems(st, items, k + 1)

\* library.json after updateLibrary() ran over the buckets `st`
Rebuilt(st, idx) ==
  [exists |-> TRUE, items |-> updatedItems(st, idx.items, 1), last |-> "rebuilt"]

\* the library starts empty
InitLib ==
  /\ store = <<>>
  /\ index = NoIndex
  /\ disk = NoDoc
  /\ mem = NoDoc
  /\ pc = "library"
  /\ worker = "none"
  /\ stderrBuffer = ""
  /\ run = NoRun
  /\ workerDoc = NoDoc
  /\ wphase = "start"
  /\ dirty = FALSE
  /\ library = NoEntry
  /\ cli = Running
  /\ NoAll
  /\ purge = NoPurge
  /\ procs = NoProcs
  /\ pass = NoPass

\* what the operations on the library leave alone
libFrame == <<disk, mem, pc, worker, stderrBuffer, run, workerDoc, wphase, dirty,
              library, cli, allVars, purge, procs, pass>>

\* ingest(url) of src/ingest.ts: make the bucket, write its manifest.json,
\* call updateLibrary()
Ingest ==
  /\ Len(store) < MaxBuckets
  /\ store' = Append(store, NewBucket(SourceUrl))
  /\ index' = Rebuilt(store', index)
  /\ UNCHANGED libFrame

\* the ingest() that appends the item to library.json itself
IngestPush ==
  /\ Len(store) < MaxBuckets
  /\ store' = Append(store, NewBucket(SourceUrl))
  /\ index' = [exists |-> TRUE,
               items |-> Append(index.items,
                           [hashId |-> Len(store) + 1, title |-> SourceUrl,
                            platform |-> getPlatformFromUrl(SourceUrl),
                            quality |-> "best", createdAt |-> Now, tags |-> <<>>,
                            summary |-> "", state |-> "ingesting",
                            hasOriginalMedia |-> FALSE]),
               last |-> "pushed"]
  /\ UNCHANGED libFrame

\* updateLibrary(): from the scheduler after a run, or from the command line
Rebuild ==
  /\ store # <<>>
  /\ index' = Rebuilt(store, index)
  /\ UNCHANGED <<store, libFrame>>

\* the pipeline of a bucket has run: its tasks are done, its artifacts are
\* ready and their files are in the bucket
Process(k) ==
  /\ store[k].manifest = "valid"
  /\ store[k].m = IngestDoc
  /\ store' = [store EXCEPT ![k] = [@ EXCEPT !.m = ProcessedDoc, !.quality = "720p",
                                               !.readable = IndexedFiles]]
  /\ UNCHANGED <<index, libFrame>>

\* the topic extractor's own updateLibrary: it sets the tags of the bucket's
\* item, if library.json exists and holds one
PatchTags(k) ==
  /\ store[k].m = ProcessedDoc
  /\ index.exists
  /\ \E i \in 1..Len(index.items) : index.items[i].hashId = k
  /\ LET i == Min({j \in 1..Len(index.items) : index.items[j].hashId = k})
     IN index' = [index EXCEPT !.items[i].tags = Topics, !.last = "patched"]
  /\ UNCHANGED <<store, libFrame>>

\* the artifact files of a bucket are deleted or become unreadable
LoseFiles(k) ==
  /\ store[k].readable # {}
  /\ store' = [store EXCEPT ![k].readable = {}]
  /\ UNCHANGED <<index, libFrame>>

\* the manifest.json of a bucket stops validating (a percent above 100) or
\* stops parsing (a write that was cut short)
Damage(k, how) ==
  /\ store[k].manifest = "valid"
  /\ store' = [store EXCEPT ![k].manifest = how]
  /\ UNCHANGED <<index, libFrame>>

NextLib ==
  \/ Ingest
  \/ IngestPush
  \/ Rebuild
  \/ \E k \in 1..Len(store) : Process(k)
  \/ \E k \in 1..Len(store) : PatchTags(k)
  \/ \E k \in 1..Len(store) : LoseFiles(k)
  \/ \E k \in 1..Len(store), how \in {"invalid", "unparseable"} : Damage(k, how)

SpecLib == InitLib /\ [][NextLib]_vars

\* ------------------------------------------------------------------------
\* Purging the media of a bucket (workers/resource-manager/index.ts)
\* ------------------------------------------------------------------------
\* a metadata object is a function from its keys to their values; null and
\* {} are both the function with no key
NoMetadata == [k \in {} |-> NULL]

\* { ...base, ...upd }
Spread(base, upd) ==
  [k \in DOMAIN base \cup DOMAIN upd |-> IF k \in DOMAIN upd THEN upd[k] ELSE base[k]]

\* the metadata a download recorded for the media file
MediaMetadata ==
  [quality |-> "720p", mediaType |-> "local", duration |-> 583,
   dimensions |-> [width |-> 1280, height |-> 720], diskSize |-> 104857600]

\* an artifact with its metadata object
FileItem(t, st, md) ==
  [type |-> t, state |-> st, path |-> getDefaultPathForFileType(t),
   derivedFrom |-> <<>>, version |-> 1, metadata |-> md]

\* the media artifact of a bucket: in any state, with the metadata of the
\* download or with none
MediaItems ==
  {FileItem("original_media", st, md) :
     st \in FileItemStateEnum, md \in {NoMetadata, MediaMetadata}}

\* the purge_media task a failed purge left behind
FailedPurge ==
  [id |-> "purge_media", state |-> "error", percent |-> 50,
   relatedOutput |-> getDefaultPathForFileType("original_media"),
   startedAt |-> Earlier, error |-> "Error: EBUSY", context |-> "reason"]

\* the documents purgeContent is called on
PurgeDocs ==
  {[tasks |-> <<Task("fetch_info_json", "done", "info_json")>> \o earlier,
    fileManifest |-> <<FileItem("info_json", "ready", NoMetadata)>> \o thumbnail
                       \o <<media>>] :
     earlier \in {<<>>, <<FailedPurge>>},
     thumbnail \in {<<>>, <<FileItem("original_thumbnail", "ready", NoMetadata)>>},
     media \in MediaItems}

PurgeReasons == {"disk_space", "user_request"}

InitPurge ==
  /\ disk \in PurgeDocs
  /\ purge \in [phase : {"called"}, keepThumbnail : BOOLEAN, reason : PurgeReasons,
                 mediaExists : BOOLEAN, thumbnailExists : BOOLEAN, result : {"none"}]
  /\ mem = NoDoc
  /\ pc = "purge"
  /\ worker = "none"
  /\ stderrBuffer = ""
  /\ run = NoRun
  /\ workerDoc = NoDoc
  /\ wphase = "start"
  /\ dirty = FALSE
  /\ library = NoEntry
  /\ cli = Running
  /\ NoAll
  /\ NoLib
  /\ procs = NoProcs
  /\ pass = NoPass

\* what purgeContent leaves alone
purgeFrame == <<pc, worker, stderrBuffer, run, workerDoc, wphase, dirty, library,
                cli, allVars, libVars, procs, pass>>

\* manifest.fileManifest.find(f => f.type === 'original_media' && f.state === 'ready')
ReadyMedia(m) ==
  {k \in 1..Len(m.fileManifest) :
     /\ m.fileManifest[k].type = "original_media"
     /\ m.fileManifest[k].state = "ready"}

\* the purge_media task set to running, or pushed
StartPurgeTask(tasks, mediaPath) ==
  IF \E i \in 1..Len(tasks) : tasks[i].id = "purge_media"
  THEN LET i == Min({j \in 1..Len(tasks) : tasks[j].id = "purge_media"})
       IN [tasks EXCEPT ![i] = [@ EXCEPT !.state = "running", !.percent = 0]]
  ELSE Append(tasks, [id |-> "purge_media", state |-> "running", percent |-> 0,
                      relatedOutput |-> mediaPath, startedAt |-> Now, error |-> NULL,
                      context |-> "reason"])

\* purgeContent up to its first saveManifest: read the manifest, find the
\* ready media file (return false if there is none), mark the task running
PurgeStart ==
  /\ purge.phase = "called"
  /\ IF ReadyMedia(disk) = {}
     THEN /\ purge' = [purge EXCEPT !.phase = "returned", !.result = "false"]
          /\ UNCHANGED <<disk, mem>>
     ELSE /\ mem' = [disk EXCEPT !.tasks =
                       StartPurgeTask(disk.tasks,
                                      disk.fileManifest[Min(ReadyMedia(disk))].path)]
          /\ disk' = mem'
          /\ purge' = [purge EXCEPT !.phase = "removing"]
  /\ UNCHANGED purgeFrame

\* the metadata of the purged media file with the fields before it dropped
PurgedMetadata_fresh(originalMetadata, reason) ==
  [diskSize |-> 0, purgedAt |-> Now, purgedReason |-> reason,
   hasOriginalMedia |-> FALSE]

\* mediaFile.metadata after the purge
PurgedMetadata(originalMetadata, reason) ==
  Spread(originalMetadata,
    [quality |-> IF "quality" \in DOMAIN originalMetadata /\ originalMetadata.quality # ""
                 THEN originalMetadata.quality ELSE "unknown",
     mediaType |-> IF "mediaType" \in DOMAIN originalMetadata
                   THEN originalMetadata.mediaType ELSE "local",
     duration |-> IF "duration" \in DOMAIN originalMetadata
                  THEN originalMetadata.duration ELSE 0,
     dimensions |-> IF "dimensions" \in DOMAIN originalMetadata
                    THEN originalMetadata.dimensions ELSE [width |-> 0, height |-> 0],
     diskSize |-> 0,
     purgedAt |-> Now,
     purgedReason |-> reason,
     hasOriginalMedia |-> FALSE])

\* the thumbnail is removed with the media: it is there in the manifest and on
\* disk, the media file was on disk, and the options do not keep it
ThumbnailPurged(m) ==
  /\ purge.mediaExists
  /\ ~purge.keepThumbnail
  /\ HasFile(m, "original_thumbnail")
  /\ purge.thumbnailExists

SetTask(tasks, id, upd) ==
  [i \in 1..Len(tasks) |-> IF tasks[i].id = id THEN Merge(tasks[i], upd) ELSE tasks[i]]

\* the rest of purgeContent when nothing throws: back up and remove the media
\* file if it is there, remove the thumbnail unless it is kept, set the media
\* item to purged, finish the task, save
PurgeDone ==
  /\ purge.phase = "removing"
  /\ LET k == Min(ReadyMedia(mem))
         t == IF ThumbnailPurged(mem)
              THEN Min({j \in 1..Len(mem.fileManifest) :
                          mem.fileManifest[j].type = "original_thumbnail"})
              ELSE 0
         files == [j \in 1..Len(mem.fileManifest) |->
                     IF j = k
                     THEN [mem.fileManifest[j] EXCEPT
                             !.state = "purged",
                             !.metadata = PurgedMetadata(@, purge.reason)]
                     ELSE IF j = t
                     THEN [mem.fileManifest[j] EXCEPT
                             !.state = "purged",
                             !.metadata = Spread(@, [purgedAt |-> Now,
                                                     purgedReason |-> purge.reason])]
                     ELSE mem.fileManifest[j]]
     IN /\ mem' = [tasks |-> SetTask(mem.tasks, "purge_media",
                                     [state |-> "done", percent |-> 100]),
                   fileManifest |-> files]
        /\ disk' = mem'
        /\ purge' = [purge EXCEPT !.phase = "returned", !.result = "true",
                                  !.mediaExists = FALSE,
                                  !.thumbnailExists = IF ThumbnailPurged(mem) THEN FALSE ELSE @]
  /\ UNCHANGED purgeFrame

\* fs.remove of the media file throws: the inner catch puts the task in
\* error, saves and returns false
PurgeFailed ==
  /\ purge.phase = "removing"
  /\ purge.mediaExists
  /\ mem' = [mem EXCEPT !.tasks = SetTask(mem.tasks, "purge_media",
                                          [state |-> "error", error |-> "Error: EBUSY"])]
  /\ disk' = mem'
  /\ purge' = [purge EXCEPT !.phase = "returned", !.result = "false"]
  /\ UNCHANGED purgeFrame

NextPurge ==
  \/ PurgeStart
  \/ PurgeDone
  \/ PurgeFailed

SpecPurge == InitPurge /\ [][NextPurge]_vars

\* ------------------------------------------------------------------------
\* Two scheduler processes on the same bucket (src/run_task.ts, twice)
\* ------------------------------------------------------------------------
Procs == {1, 2}

\* a scheduler process that has not read the document yet
FreshProc ==
  [pc |-> "idle", mem |-> NoDoc, changed |-> FALSE, task |-> "none",
   output |-> "none", outcome |-> "none"]

\* the documents of the bucket when both processes are started
TwoDocs ==
  { IngestDoc,
    [tasks |-> <<Task("fetch_info_json", "queued", "info_json")>>,
     fileManifest |-> <<>>],
    [tasks |-> <<Task("fetch_info_json", "done", "info_json")>>,
     fileManifest |-> <<Produced("info_json")>>],
    [tasks |-> <<>>, fileManifest |-> <<Produced("text_content_md")>>] }

InitTwo ==
  /\ disk \in TwoDocs
  /\ procs = [p \in Procs |-> FreshProc]
  /\ pass = NoPass
  /\ mem = NoDoc
  /\ pc = "two"
  /\ worker = "none"
  /\ stderrBuffer = ""
  /\ run = NoRun
  /\ workerDoc = NoDoc
  /\ wphase = "start"
  /\ dirty = FALSE
  /\ library = NoEntry
  /\ cli = Running
  /\ NoAll
  /\ NoLib
  /\ purge = NoPurge

\* what the two processes leave alone
twoFrame == <<mem, pc, worker, stderrBuffer, run, workerDoc, wphase, dirty, library,
              cli, allVars, libVars, purge, pass>>

\* runNextTask of process p: readManifest and the evaluation of the rules on
\* the copy it read
TwoRead(p) ==
  /\ procs[p].pc = "idle"
  /\ IF ~SchemaValid(disk)
     THEN procs' = [procs EXCEPT ![p].pc = "stopped"]
     ELSE procs' = [procs EXCEPT ![p].pc = "read",
                                 ![p].mem = updateTaskDependencies(disk),
                                 ![p].changed = (updateTaskDependencies(disk) # disk)]
  /\ UNCHANGED <<disk, twoFrame>>

\* runNextTask of process p from the write-back on: writeManifest if the
\* evaluation added something, pick the first queued task of its copy,
\* executeWorker marks it running, writes and spawns the worker
TwoStart(p) ==
  /\ procs[p].pc = "read"
  /\ LET updatedManifest == procs[p].mem
     IN IF \A i \in 1..Len(updatedManifest.tasks) :
               updatedManifest.tasks[i].state # "queued"
        THEN /\ disk' = IF procs[p].changed THEN updatedManifest ELSE disk
             /\ procs' = [procs EXCEPT ![p].pc = "stopped"]
        ELSE LET task == updatedManifest.tasks[FirstQueued(updatedManifest)]
             IN IF task.id \notin TASK_WORKER_MAP
                THEN /\ disk' = MissingWorker(updatedManifest, task)
                     /\ procs' = [procs EXCEPT ![p].pc = "idle", ![p].mem = disk',
                                                ![p].task = task.id,
                                                ![p].output = task.relatedOutput,
                                                ![p].outcome = "nomap"]
                ELSE /\ disk' = updateTask(updatedManifest, task.id,
                                   [state |-> "running", startedAt |-> Now, percent |-> 0],
                                   FileUpdate(task.relatedOutput, "processing"))
                     /\ procs' = [procs EXCEPT ![p].pc = "awaiting", ![p].mem = disk',
                                                ![p].task = task.id,
                                                ![p].output = task.relatedOutput,
                                                ![p].outcome = "active"]
  /\ UNCHANGED twoFrame

\* a close handler that writes only if the document is still the one the
\* process wrote last
TwoClose_checked(p, code) ==
  /\ procs[p].pc = "awaiting"
  /\ LET final == IF code = 0
                  THEN updateTaskDependencies(
                         updateTask(procs[p].mem, procs[p].task,
                           [state |-> "done", percent |-> 100, error |-> NULL],
                           FileUpdate(procs[p].output, "ready")))
                  ELSE updateTask(procs[p].mem, procs[p].task,
                         [state |-> "error", error |-> ExitMessage(code)],
                         FileUpdate(procs[p].output, "error"))
     IN /\ disk' = IF disk = procs[p].mem THEN final ELSE disk
        /\ procs' = [procs EXCEPT ![p].mem = final,
                                   ![p].pc = IF code = 0 /\ disk = procs[p].mem
                                             THEN "idle" ELSE "stopped",
                                   ![p].outcome = IF code = 0 THEN "done" ELSE "failed"]
  /\ UNCHANGED twoFrame

\* the worker of process p exits with `code`: the close handler updates the
\* copy of p, evaluates the rules after a success, and writes the copy
TwoClose(p, code) ==
  /\ procs[p].pc = "awaiting"
  /\ LET final == IF code = 0
                  THEN updateTaskDependencies(
                         updateTask(procs[p].mem, procs[p].task,
                           [state |-> "done", percent |-> 100, error |-> NULL],
                           FileUpdate(procs[p].output, "ready")))
                  ELSE updateTask(procs[p].mem, procs[p].task,
                         [state |-> "error", error |-> ExitMessage(code)],
                         FileUpdate(procs[p].output, "error"))
     IN /\ disk' = final
        /\ procs' = [procs EXCEPT ![p].mem = final,
                                   ![p].pc = IF code = 0 THEN "idle" ELSE "stopped",
                                   ![p].outcome = IF code = 0 THEN "done" ELSE "failed"]
  /\ UNCHANGED twoFrame

NextTwo ==
  \/ \E p \in Procs : TwoRead(p)
  \/ \E p \in Procs : TwoStart(p)
  \/ \E p \in Procs, code \in ExitCodes : TwoClose(p, code)

SpecTwo == InitTwo /\ [][NextTwo]_vars

\* ------------------------------------------------------------------------
\* Manual task creation between scheduler runs (src/task_dependencies.ts,
\* src/run_task.ts)
\* ------------------------------------------------------------------------
\* the ids of the manual tasks whose output is the media file
ManualTaskIds == {"upgrade_media_quality", "purge_media"}

\* createUpgradeMediaQualityTask / createPurgeMediaTask: the record pushed by
\* `manifest.tasks.push(task)`
ManualTask(id) ==
  [id |-> id, state |-> "queued", percent |-> 0, relatedOutput |-> "original_media",
   startedAt |-> NULL, error |-> NULL,
   context |-> IF id = "purge_media" THEN "reason" ELSE "targetQuality"]

\* the purge_media task purgeContent left in the document of a purged bucket
DonePurge ==
  [id |-> "purge_media", state |-> "done", percent |-> 100,
   relatedOutput |-> getDefaultPathForFileType("original_media"),
   startedAt |-> Earlier, error |-> NULL, context |-> "reason"]

\* documents a manual task is appended to
ManualDocs ==
  LET fetch == {<<Task("fetch_info_json", st, "info_json")>> : st \in {"queued", "done"}}
      media == ArtifactsOf("original_media")
  IN {[tasks |-> t, fileManifest |-> f] :
        t \in fetch, f \in {<<>>, <<Produced("info_json")>>}}
     \cup {[tasks |-> t, fileManifest |-> <<Produced("info_json"), a>>] :
             t \in fetch, a \in media}
     \cup {[tasks |-> <<Task("fetch_info_json", "done", "info_json"), DonePurge>>,
             fileManifest |-> <<Produced("info_json"), a>>] :
             a \in {b \in media : b.state = "purged"}}

InitManual ==
  /\ disk \in ManualDocs
  /\ mem = NoDoc
  /\ pc = "stopped"
  /\ worker = "none"
  /\ stderrBuffer = ""
  /\ run = NoRun
  /\ workerDoc = NoDoc
  /\ wphase = "start"
  /\ dirty = FALSE
  /\ library = updateLibrary(disk)
  /\ cli = Running
  /\ NoAll
  /\ NoLib
  /\ purge = NoPurge
  /\ procs = NoProcs
  /\ pass = NoPass

\* an external actor creates a manual task and pushes it on the task list of
\* the persisted document, while no scheduler command runs on the bucket
ManualAppend(id) ==
  /\ pc = "stopped"
  /\ worker = "none"
  /\ Cardinality({i \in 1..Len(disk.tasks) : disk.tasks[i].id \in ManualTaskIds})
       < MaxManual
  /\ disk' = [disk EXCEPT !.tasks = Append(@, ManualTask(id))]
  /\ UNCHANGED <<mem, pc, worker, stderrBuffer, run, workerDoc, wphase, dirty,
                 library, cli, ext>>

\* the steps between which manual tasks are appended; what a worker prints
\* and writes while it runs is left to Spec
NextManual ==
  \/ \E id \in ManualTaskIds : ManualAppend(id)
  \/ Restart
  \/ runNextTask
  \/ \E code \in ExitCodes : WorkerClose(code)
  \/ WorkerError
  \/ CloseAfterError

SpecManual == InitManual /\ [][NextManual]_vars

\* ------------------------------------------------------------------------
\* Executor runs with a library.json that may not validate
\* (src/run_task.ts, src/updateLibrary.ts)
\* ------------------------------------------------------------------------
\* library.json as an external edit left it: LibrarySchema.parse fails
DamagedIndex == [exists |-> TRUE, items |-> <<>>, last |-> "damaged"]

\* updateLibrary gets past `LibrarySchema.parse(library)`
IndexReadable(idx) == idx.last # "damaged"

\* the outcomes of a handler whose promise rejects with nobody awaiting it:
\* the executor's promise stays pending and the process ends when nothing is
\* left to wait for, or the runtime ends the process on the unhandled
\* rejection
Unsettled == {[result |-> "pending", exitCode |-> 0], [result |-> "pending", exitCode |-> 1]}

InitIndex ==
  /\ disk \in TwoDocs
  /\ index \in {NoIndex, [NoIndex EXCEPT !.exists = TRUE, !.last = "rebuilt"], DamagedIndex}
  /\ store = <<>>
  /\ mem = NoDoc
  /\ pc = "idle"
  /\ worker = "none"
  /\ stderrBuffer = ""
  /\ run = NoRun
  /\ workerDoc = NoDoc
  /\ wphase = "start"
  /\ dirty = FALSE
  /\ library = IF IndexReadable(index) THEN updateLibrary(disk) ELSE NoEntry
  /\ cli = Running
  /\ NoAll
  /\ purge = NoPurge
  /\ procs = NoProcs
  /\ pass = NoPass

\* the document the close handler writes for exit code `code`
ClosedDoc(code) ==
  IF code = 0
  THEN updateTaskDependencies(
         updateTask(mem, run.task, [state |-> "done", percent |-> 100, error |-> NULL],
                    FileUpdate(run.output, "ready")))
  ELSE updateTask(mem, run.task,
         [state |-> "error",
          error |-> IF stderrBuffer # "" THEN stderrBuffer ELSE ExitMessage(code)],
         FileUpdate(run.output, "error"))

\* worker.on('close') when updateLibrary throws: the document is written,
\* `await updateLibrary()` rejects inside the async handler, and neither
\* resolve() nor reject() is reached
CloseRebuildThrows(code) ==
  /\ worker \in {"alive", "closepending"}
  /\ worker = "closepending" <=> code = SpawnFailCode
  /\ ~IndexReadable(index)
  /\ mem' = ClosedDoc(code)
  /\ disk' = mem'
  /\ dirty' = FALSE
  /\ worker' = "none"
  /\ run' = [run EXCEPT !.code = code, !.evals = IF code = 0 THEN @ + 1 ELSE @]
  /\ cli' \in IF worker = "alive" THEN Unsettled ELSE {cli}
  /\ UNCHANGED <<pc, stderrBuffer, workerDoc, wphase, library, ext>>

\* worker.on('error') when updateLibrary throws: the document is written and
\* reject(error) is not reached
ErrorRebuildThrows ==
  /\ worker = "spawnfail"
  /\ ~IndexReadable(index)
  /\ mem' = updateTask(mem, run.task,
               [state |-> "error", error |-> SpawnErrorMessage],
               FileUpdate(run.output, "error"))
  /\ disk' = mem'
  /\ dirty' = FALSE
  /\ worker' = "closepending"
  /\ cli' \in Unsettled
  /\ UNCHANGED <<pc, stderrBuffer, run, workerDoc, wphase, library, ext>>

\* an external edit leaves library.json failing LibrarySchema.parse
DamageIndex ==
  /\ IndexReadable(index)
  /\ index' = DamagedIndex
  /\ UNCHANGED <<disk, mem, pc, worker, stderrBuffer, run, workerDoc, wphase, dirty,
                 library, cli, allVars, store, purge, procs, pass>>

\* the handlers when updateLibrary returns
CloseRebuilds(code) == IndexReadable(index) /\ WorkerClose(code)

ErrorRebuilds == IndexReadable(index) /\ WorkerError

CloseAfterErrorRebuilds == IndexReadable(index) /\ CloseAfterError

\* the executor with the rebuild succeeding or throwing
NextIndex ==
  \/ runNextTask
  \/ \E code \in ExitCodes : CloseRebuilds(code)
  \/ ErrorRebuilds
  \/ CloseAfterErrorRebuilds
  \/ \E code \in ExitCodes \cup {SpawnFailCode} : CloseRebuildThrows(code)
  \/ ErrorRebuildThrows
  \/ DamageIndex
  \/ Restart

SpecIndex == InitIndex /\ [][NextIndex]_vars

\* ------------------------------------------------------------------------
\* One evaluator pass, with the rule table in any order
\* (src/task_dependencies.ts, findTasksToTrigger)
\* ------------------------------------------------------------------------
\* the artifacts that have been produced, at most MaxFiles of them
OrderFiles ==
  UNION {{f \in FilesOver(S, 1) : \A i \in 1..Len(f) : f[i].state = "ready"} :
           S \in {T \in SUBSET TypeSet : Cardinality(T) <= MaxFiles}}

\* the document after ingest, before and after fetch_info_json has run
OrderTasks == {<<>>, <<Task("fetch_info_json", "done", "info_json")>>}

OrderDocs == {[tasks |-> t, fileManifest |-> f] : t \in OrderTasks, f \in OrderFiles}

InitOrder ==
  /\ disk \in OrderDocs
  /\ pass = [phase |-> "rules", todo |-> RuleIds, newTasks |-> <<>>, start |-> disk]
  /\ mem = NoDoc
  /\ pc = "eval"
  /\ worker = "none"
  /\ stderrBuffer = ""
  /\ run = NoRun
  /\ workerDoc = NoDoc
  /\ wphase = "start"
  /\ dirty = FALSE
  /\ library = NoEntry
  /\ cli = Running
  /\ NoAll
  /\ NoLib
  /\ purge = NoPurge
  /\ procs = NoProcs

orderFrame == <<mem, worker, stderrBuffer, run, workerDoc, wphase, dirty, library,
                cli, allVars, libVars, purge, procs>>

\* the body of the for-loop of findTasksToTrigger for one rule of the table,
\* whichever place the table gives it: manifest.fileManifest is extended in
\* place, manifest.tasks is left alone until the loop is over
VisitRule(id) ==
  /\ pass.phase = "rules"
  /\ id \in pass.todo
  /\ IF ~triggerCondition(id, disk)
     THEN /\ pass' = [pass EXCEPT !.todo = @ \ {id}]
          /\ UNCHANGED disk
     ELSE LET newTask == NewTask(id)
          IN /\ pass' = [pass EXCEPT !.todo = @ \ {id},
                                     !.newTasks = Append(@, newTask)]
             /\ disk' = IF HasFile(disk, newTask.relatedOutput)
                        THEN disk
                        ELSE [disk EXCEPT !.fileManifest =
                                Append(@, Placeholder(newTask.relatedOutput,
                                                      getDerivedFrom(id, disk)))]
  /\ UNCHANGED <<pc, orderFrame>>

\* the end of updateTaskDependencies: the new tasks are appended to the
\* document's tasks, or the document is returned as it is
FinishPass ==
  /\ pass.phase = "rules"
  /\ pass.todo = {}
  /\ disk' = IF Len(pass.newTasks) = 0
             THEN disk
             ELSE [disk EXCEPT !.tasks = @ \o pass.newTasks]
  /\ pass' = [pass EXCEPT !.phase = "done"]
  /\ pc' = "evaluated"
  /\ UNCHANGED orderFrame

NextOrder ==
  \/ \E id \in RuleIds : VisitRule(id)
  \/ FinishPass

SpecOrder == InitOrder /\ [][NextOrder]_vars

\* ------------------------------------------------------------------------
\* Properties
\* ------------------------------------------------------------------------
\* the task the current / last executor run was started on, as persisted
ExecutedTask == FindTask(disk, run.task)

RunEnded == run.outcome \in {"done", "failed", "spawnerr", "nomap"}

TaskCount(m, id) == Cardinality({i \in 1..Len(m.tasks) : m.tasks[i].id = id})

\* the artifact types the trigger of a rule requires to be ready
Requires(id) ==
  CASE id = "download_media" -> {"info_json"}
    [] id = "extract_audio" -> {"original_media"}
    [] id = "transcribe_whisperx" -> {"extracted_audio"}
    [] id = "merge_transcripts" -> {"transcript_en_vtt", "transcript_zh_vtt"}
    [] id = "extract_text" -> {"transcript_merged_vtt"}
    [] id = "generate_rich_summary" -> {"text_content_md"}
    [] id = "extract_topics" -> {"summary_rich_json"}
    [] id = "generate_speech_summary" -> {"summary_md"}
    [] id = "initialize_text_chat" -> {"text_content_md"}

\* C1: once an executor run has ended, the persisted task is done or error,
\* and its percent is 100 if and only if it is done.
C1_TerminalExclusive ==
  RunEnded =>
    /\ ExecutedTask.state \in {"done", "error"}
    /\ (ExecutedTask.percent = 100 <=> ExecutedTask.state = "done")

\* C2: after exit code 0 the task is done with percent 100 and error null and
\* every artifact of its relatedOutput type is ready; after a nonzero exit
\* code N the task is error, its error is the accumulated stderr text (or
\* "Worker exited with code N" when stderr was empty) and that artifact is error.
C2_CloseOutcome ==
  /\ run.outcome = "done" =>
       /\ ExecutedTask.state = "done"
       /\ ExecutedTask.percent = 100
       /\ ExecutedTask.error = NULL
       /\ \A i \in 1..Len(disk.fileManifest) :
            disk.fileManifest[i].type = run.output => disk.fileManifest[i].state = "ready"
  /\ run.outcome = "failed" =>
       /\ run.code # 0
       /\ ExecutedTask.state = "error"
       /\ ExecutedTask.error = IF stderrBuffer # "" THEN stderrBuffer
                               ELSE "Worker exited with code " \o ToString(run.code)
       /\ \A i \in 1..Len(disk.fileManifest) :
            disk.fileManifest[i].type = run.output => disk.fileManifest[i].state = "error"

\* a worker exited with code 1 after writing "disk full" to stderr, and the
\* task's output artifact exists
C2_Witness ==
  /\ run.outcome = "failed"
  /\ run.code = 1
  /\ ExecutedTask.error = "disk full"
  /\ FindFile(disk, run.output).state = "error"

\* C3: an evaluator pass that directly follows another evaluator pass appends
\* no task and no artifact.
C3_EvaluatorIdempotent ==
  [][pc = "evaluated" => /\ disk'.tasks = disk.tasks
                         /\ disk'.fileManifest = disk.fileManifest]_vars

\* a pass was made that queued the two rules of the fan-out from
\* text_content_md, with a placeholder for the summary
C3_Witness ==
  /\ pc = "evaluated"
  /\ FindTask(disk, "generate_rich_summary").state = "queued"
  /\ FindTask(disk, "initialize_text_chat").state = "queued"
  /\ FindFile(disk, "summary_rich_json").state = "queued"
  /\ FindFile(disk, "text_content_md").state = "ready"

\* C4: the persisted task list never holds two tasks with the same id.
C4_UniqueTaskIds ==
  \A i, j \in 1..Len(disk.tasks) :
    i # j => disk.tasks[i].id # disk.tasks[j].id

\* evaluator passes and executor runs have grown the task list: a chain of
\* rule tasks was queued and run
C4_Witness ==
  /\ Len(disk.tasks) >= 4
  /\ FindTask(disk, "merge_transcripts").state = "done"
  /\ FindTask(disk, "extract_text").state = "done"
  /\ HasTask(disk, "generate_rich_summary")

\* C5: an evaluator pass queues no rule's task while an artifact the rule
\* requires is absent or in a state other than ready.
C5_NoPrematureTrigger ==
  [][\A id \in RuleIds :
       (\E t \in Requires(id) : FindFile(disk, t).state # "ready")
         => TaskCount(disk', id) = TaskCount(disk, id)]_vars

\* a pass fired the rules on a ready text_content_md and left the rule on the
\* summary_rich_json in error unfired
C5_Witness ==
  /\ pc = "evaluated"
  /\ FindFile(disk, "summary_rich_json").state = "error"
  /\ HasTask(disk, "initialize_text_chat")
  /\ ~HasTask(disk, "extract_topics")

\* C6: with no merge_transcripts task in the document, an evaluator pass
\* queues merge_transcripts exactly when transcript_en_vtt and
\* transcript_zh_vtt are both ready.
C6_FanIn ==
  [][~HasTask(disk, "merge_transcripts") =>
       (HasTask(disk', "merge_transcripts") <=>
          /\ FindFile(disk, "transcript_en_vtt").state = "ready"
          /\ FindFile(disk, "transcript_zh_vtt").state = "ready")]_vars

\* a pass queued merge_transcripts for two ready transcripts, the Chinese one
\* listed first
C6_Witness ==
  /\ pc = "evaluated"
  /\ FindTask(disk, "merge_transcripts").state = "queued"
  /\ FindFile(disk, "transcript_merged_vtt").state = "queued"
  /\ Len(disk.fileManifest) >= 2
  /\ disk.fileManifest[1].type = "transcript_zh_vtt"
  /\ disk.fileManifest[2].type = "transcript_en_vtt"

\* C7: a run that ended with exit code 0 has run the evaluator once and its
\* final write leaves no rule eligible; a run that ended by a nonzero exit, a
\* spawn failure or a missing worker mapping has not run the evaluator and its
\* document has as many tasks and artifacts as the run started with.
C7_EvaluatorOnlyAfterSuccess ==
  /\ run.outcome = "done" =>
       /\ run.evals = 1
       /\ Len(findTasksToTrigger(disk).newTasks) = 0
  /\ run.outcome \in {"failed", "spawnerr", "nomap"} =>
       /\ run.evals = 0
       /\ Len(disk.tasks) = run.nTasks
       /\ Len(disk.fileManifest) = run.nFiles

\* a successful run whose final write also holds the tasks queued by the
\* evaluation that followed it
C7_Witness ==
  /\ run.outcome = "done"
  /\ ExecutedTask.state = "done"
  /\ Len(disk.tasks) > run.nTasks
  /\ Len(disk.fileManifest) > run.nFiles

\* a task that this step takes out of queued
StartedAt(i) ==
  /\ i \in 1..Len(disk'.tasks)
  /\ disk'.tasks[i].state # "queued"
  /\ i > Len(disk.tasks) \/ disk.tasks[i].state = "queued"

\* C8: a task leaves queued only when no earlier task of the list is queued
\* and the previous run has finished (no worker, no run in progress), and at
\* most one task is running.
C8_OneAtATimeOldestFirst ==
  [][/\ \A i \in 1..Len(disk'.tasks) :
          StartedAt(i) =>
            /\ \A j \in 1..(i - 1) : disk'.tasks[j].state # "queued"
            /\ run.outcome # "active"
            /\ worker = "none"
     /\ Cardinality({i \in 1..Len(disk'.tasks) : disk'.tasks[i].state = "running"}) <= 1]_vars

\* the second of two queued tasks waits while the first one runs, after an
\* earlier task of the bucket was completed
C8_Witness ==
  /\ run.outcome = "active"
  /\ run.task = "generate_rich_summary"
  /\ FindTask(disk, "extract_text").state = "done"
  /\ FindTask(disk, "generate_rich_summary").state = "running"
  /\ FindTask(disk, "initialize_text_chat").state = "queued"

\* C9: no write of the executor replaces a document that the worker has
\* written since the executor's previous write.
C9_ExecutorSoleWriter ==
  [][~(dirty /\ ~dirty' /\ disk' # disk)]_vars

\* C10: while a task in error names an artifact type as its relatedOutput, no
\* step queues the task of a rule whose trigger requires that type.
C10_FailedStageBlocks ==
  [][\A i \in 1..Len(disk.tasks) : \A id \in RuleIds :
       (disk.tasks[i].state = "error" /\ disk.tasks[i].relatedOutput \in Requires(id))
         => TaskCount(disk', id) = TaskCount(disk, id)]_vars

\* merge_transcripts failed, and a later run-next evaluated the document and
\* found nothing to run: extract_text was not queued
C10_Witness ==
  /\ pc = "stopped"
  /\ run.outcome = "none"
  /\ FindTask(disk, "merge_transcripts").state = "error"
  /\ FindFile(disk, "transcript_merged_vtt").state = "error"
  /\ ~HasTask(disk, "extract_text")

\* C11: when the fetch_info_json task of the document ingest created has run
\* and its worker exited 0, the final write of that run holds a ready
\* info_json artifact and a download_media task.
C11_SelfAdvancing ==
  (/\ run.task = "fetch_info_json"
   /\ run.output = "original/info.json"
   /\ run.outcome = "done")
    => /\ FindFile(disk, "info_json").state = "ready"
       /\ HasTask(disk, "download_media")

\* the task run-next is about to execute: the first queued task of the
\* evaluated document
NextTask ==
  LET m == updateTaskDependencies(disk)
  IN IF \E i \in 1..Len(m.tasks) : m.tasks[i].state = "queued"
     THEN m.tasks[FirstQueued(m)] ELSE Undefined

\* C12: when run-next executes a queued task whose id has no worker mapping,
\* that task becomes error with the message naming it, no worker is spawned,
\* every artifact and every other task is as the evaluation left it, the
\* document is persisted, the index is rebuilt from it and the scheduler is
\* ready for the next task.
C12_MissingMapping ==
  [][(/\ pc = "idle"
      /\ SchemaValid(disk)
      /\ NextTask # Undefined
      /\ NextTask.id \notin TASK_WORKER_MAP)
       => LET m == updateTaskDependencies(disk)
              t == NextTask.id
          IN /\ FindTask(disk', t).state = "error"
             /\ FindTask(disk', t).error = "No worker configuration found for task " \o t
             /\ worker' = "none"
             /\ disk'.fileManifest = m.fileManifest
             /\ Len(disk'.tasks) = Len(m.tasks)
             /\ \A i \in 1..Len(m.tasks) : m.tasks[i].id # t => disk'.tasks[i] = m.tasks[i]
             /\ library' = updateLibrary(disk')
             /\ pc' = "idle"]_vars

\* generate_speech_summary, which has no worker mapping, was put in error and
\* the task queued behind it was executed next
C12_Witness ==
  /\ FindTask(disk, "generate_speech_summary").error
       = "No worker configuration found for task generate_speech_summary"
  /\ FindFile(disk, "speech_summary_audio").state = "queued"
  /\ run.task = "initialize_text_chat"
  /\ FindTask(disk, "initialize_text_chat").state = "done"

\* C13: once a run whose worker could not be spawned is over, the task is
\* error, its error is the spawn error's message, every artifact of its
\* relatedOutput type is error, and the evaluator was not run.
C13_SpawnFailure ==
  (run.outcome = "spawnerr" /\ worker = "none")
    => /\ ExecutedTask.state = "error"
       /\ ExecutedTask.error = SpawnErrorMessage
       /\ \A i \in 1..Len(disk.fileManifest) :
            disk.fileManifest[i].type = run.output => disk.fileManifest[i].state = "error"
       /\ run.evals = 0

\* C14: once an executor run is over, whatever its outcome, the index was
\* rebuilt exactly once in it, from the document of the final write.
C14_OneRebuildPerRun ==
  (RunEnded /\ worker = "none")
    => /\ run.rebuilds = 1
       /\ library = updateLibrary(disk)

\* C15: the write that takes a task to running sets its percent to 0 and
\* every artifact of its relatedOutput type to processing, and leaves a
\* startedAt that was already set as it was.
C15_RunningTransition ==
  [][\A i \in 1..Len(disk'.tasks) :
       (StartedAt(i) /\ disk'.tasks[i].state = "running")
         => /\ disk'.tasks[i].percent = 0
            /\ \A k \in 1..Len(disk'.fileManifest) :
                 disk'.fileManifest[k].type = disk'.tasks[i].relatedOutput
                   => disk'.fileManifest[k].state = "processing"
            /\ (i <= Len(disk.tasks) /\ disk.tasks[i].startedAt # NULL)
                 => disk'.tasks[i].startedAt = disk.tasks[i].startedAt]_vars

\* C16: no task of the document ever carries the missing-mapping
\* configuration error.
C16_EveryTaskMapped ==
  \A i \in 1..Len(disk.tasks) :
    disk.tasks[i].error # "No worker configuration found for task " \o disk.tasks[i].id

\* C17: with original_media ready and no extract_audio task, an evaluator
\* pass queues extract_audio, whatever the artifact's metadata.
C17_MediaToAudio ==
  [][(/\ FindFile(disk, "original_media").state = "ready"
      /\ ~HasTask(disk, "extract_audio"))
       => FindTask(disk', "extract_audio").state = "queued"]_vars

Range(q) == {q[i] : i \in 1..Len(q)}

\* the paths of the artifacts that satisfied the trigger of a rule
UpstreamPaths(m, id) == {FindFile(m, t).path : t \in Requires(id)}

\* the rule's task was queued by this step and the artifact of its output type
\* was pushed with it
QueuedWithPlaceholder(id) ==
  /\ TaskCount(disk', id) > TaskCount(disk, id)
  /\ ~HasFile(disk, RuleOutput(id))

\* C19 as stated: for every rule whose task a pass queues, the document then
\* holds an artifact of the task's relatedOutput type, and a placeholder
\* pushed for it is queued and its derivedFrom lists exactly the paths of the
\* artifacts that satisfied the trigger.
C19_PlaceholderProvenance ==
  [][\A id \in RuleIds :
       TaskCount(disk', id) > TaskCount(disk, id)
         => /\ HasFile(disk', FindTask(disk', id).relatedOutput)
            /\ QueuedWithPlaceholder(id)
                 => /\ FindFile(disk', RuleOutput(id)).state = "queued"
                    /\ Range(FindFile(disk', RuleOutput(id)).derivedFrom)
                         = UpstreamPaths(disk, id)]_vars

\* C19 amended: the same, except that the original_media placeholder pushed
\* for download_media has an empty derivedFrom.
C19_PlaceholderProvenanceAmended ==
  [][\A id \in RuleIds :
       TaskCount(disk', id) > TaskCount(disk, id)
         => /\ HasFile(disk', FindTask(disk', id).relatedOutput)
            /\ QueuedWithPlaceholder(id)
                 => /\ FindFile(disk', RuleOutput(id)).state = "queued"
                    /\ Range(FindFile(disk', RuleOutput(id)).derivedFrom)
                         = IF id = "download_media" THEN {}
                           ELSE UpstreamPaths(disk, id)]_vars

\* a pass pushed the extracted_audio placeholder, derived from a media file
\* that is not at the default path
C19_Witness ==
  /\ pc = "evaluated"
  /\ FindTask(disk, "extract_audio").state = "queued"
  /\ FindFile(disk, "extracted_audio").state = "queued"
  /\ FindFile(disk, "extracted_audio").derivedFrom = <<"original/media.webm">>
  /\ FindFile(disk, "original_media").path = "original/media.webm"

C23_ReadFailureSurfaced ==
  [][(pc = "idle" /\ worker = "none" /\ ~SchemaValid(disk))
       => /\ cli'.result = "rejected"
          /\ cli'.exitCode # NULL
          /\ cli'.exitCode # 0]_vars

\* the tasks of `after` are those of `before`, the executed task's percent
\* apart
OnlyPercentChanged(before, after, taskId) ==
  /\ after.fileManifest = before.fileManifest
  /\ Len(after.tasks) = Len(before.tasks)
  /\ \A i \in 1..Len(before.tasks) :
       after.tasks[i] =
         IF before.tasks[i].id = taskId
         THEN [before.tasks[i] EXCEPT !.percent = after.tasks[i].percent]
         ELSE before.tasks[i]

\* C26: while a worker runs the executor writes the document only in reaction
\* to a progress report whose percent is a multiple of 10 or that carries the
\* flush flag; every other report changes only the in-memory percent; and the
\* terminal state is always written, whatever the last reported percent was.
C26_ProgressThrottle ==
  [][worker = "alive" =>
       /\ (worker' = "alive" /\ run'.reports # run.reports) =>
             /\ OnlyPercentChanged(mem, mem', run.task)
             /\ IF FindTask(mem', run.task).percent % 10 = 0 \/ run'.flush
                THEN disk' = mem'
                ELSE disk' = disk
       /\ (worker' = "alive" /\ disk' # disk) =>
             \/ dirty'
             \/ /\ run'.reports # run.reports
                /\ FindTask(mem', run.task).percent % 10 = 0 \/ run'.flush
       /\ worker' = "none" =>
             /\ disk' = mem'
             /\ FindTask(disk', run.task).state \in {"done", "error"}]_vars

\* a report of 55 percent without the flag: the executor's copy has it, the
\* persisted document does not
C26_Witness ==
  /\ worker = "alive"
  /\ run.reports > 0
  /\ ~run.flush
  /\ FindTask(mem, run.task).percent = 55
  /\ FindTask(disk, run.task).percent # 55

\* C27: an artifact's version is left unchanged by every update that changes
\* only its state or metadata, and after a successful executor run the
\* version of the run's output artifact is greater than before the run.
C27_VersionBump ==
  [][/\ \A k \in 1..Min({Len(disk.fileManifest), Len(disk'.fileManifest)}) :
          (/\ disk'.fileManifest[k].type = disk.fileManifest[k].type
           /\ ~(run'.outcome = "done" /\ disk.fileManifest[k].type = run.output))
            => disk'.fileManifest[k].version = disk.fileManifest[k].version
     /\ (worker = "alive" /\ run'.outcome = "done" /\ HasFile(disk, run.output))
          => FindFile(disk', run.output).version > FindFile(disk, run.output).version]_vars

\* C30: when run-all-tasks has returned, the bucket's document has no task
\* left in state queued: a task that ended in error keeps no other queued
\* task of the bucket from being executed in the same call.
C30_NoQueuedLeft ==
  pc = "stopped" => \A i \in 1..Len(disk.tasks) : disk.tasks[i].state # "queued"

\* runAllTasks on a bucket that started with document `d0` has returned and
\* left document `d`: the first task that was queued has been executed, and
\* the loop ended because nothing was queued any more or because a run failed
Scheduled(d0, d) ==
  LET u == updateTaskDependencies(d0)
      noQueued(m) == \A i \in 1..Len(m.tasks) : m.tasks[i].state # "queued"
  IN IF noQueued(u) THEN d = u
     ELSE /\ FindTask(d, u.tasks[FirstQueued(u)].id).state \in {"done", "error"}
          /\ \/ noQueued(d)
             \/ \E i \in 1..Len(d.tasks) : d.tasks[i].state = "error"

ItemCount(items, k) == Cardinality({i \in 1..Len(items) : items[i].hashId = k})

\* C21: an index rebuild over any set of buckets does not fail because a
\* bucket's document is unparseable or fails schema validation, and the index
\* it writes holds exactly one entry for each bucket whose document is valid
\* and no entry for any other bucket.
C21_RebuildSkipsBadBuckets ==
  [][(index' # index /\ index'.last \notin {"pushed", "patched"}) =>
       /\ index'.last = "rebuilt"
       /\ index'.exists
       /\ \A i \in 1..Len(index'.items) : index'.items[i].hashId \in 1..Len(store')
       /\ \A k \in 1..Len(store') :
            ItemCount(index'.items, k) = IF store'[k].manifest = "valid" THEN 1 ELSE 0]_vars

\* two buckets, the first with an unparseable document: the rebuilt index has
\* the one entry of the second
C21_Witness ==
  /\ index.last = "rebuilt"
  /\ Len(store) = 2
  /\ store[1].manifest = "unparseable"
  /\ store[2].manifest = "valid"
  /\ Len(index.items) = 1
  /\ index.items[1].hashId = 2

\* C22: when a rebuild cannot freshly extract a bucket's title, creation
\* time, quality, tags or summary excerpt, the rebuilt entry keeps, for each
\* such field, the value the previous index held for that bucket.
C22_CachedFieldsKept ==
  [][(index' # index /\ index'.last = "rebuilt") =>
       \A k \in 1..Len(store) :
         (store[k].manifest = "valid" /\ ItemCount(index.items, k) > 0) =>
           LET old == existingItem(index.items, k)
               new == existingItem(index'.items, k)
           IN /\ ~TitleExtracted(store[k]) => new.title = old.title
              /\ new.createdAt = old.createdAt
              /\ ~QualityExtracted(store[k]) => new.quality = old.quality
              /\ ~TagsExtracted(store[k]) => new.tags = old.tags
              /\ ~SummaryExtracted(store[k]) => new.summary = old.summary]_vars

C28_PurgeFrame ==
  [][/\ Len(disk'.fileManifest) = Len(disk.fileManifest)
     /\ \A j \in 1..Len(disk.fileManifest) :
          /\ disk'.fileManifest[j].type = disk.fileManifest[j].type
          /\ disk'.fileManifest[j].path = disk.fileManifest[j].path
          /\ disk.fileManifest[j].type \notin {"original_media", "original_thumbnail"}
               => disk'.fileManifest[j] = disk.fileManifest[j]
     /\ purge'.result = "true" =>
          LET k == Min(ReadyMedia(disk))
              before == disk.fileManifest[k]
              after == disk'.fileManifest[k]
          IN /\ ReadyMedia(disk) # {}
             /\ after.state = "purged"
             /\ "diskSize" \in DOMAIN after.metadata
             /\ after.metadata.diskSize = 0
             /\ \A f \in {"quality", "duration", "dimensions"} \cap DOMAIN before.metadata :
                  f \in DOMAIN after.metadata /\ after.metadata[f] = before.metadata[f]
             /\ {"purgedAt", "purgedReason"} \subseteq DOMAIN after.metadata
             /\ after.metadata.purgedAt = Now
             /\ after.metadata.purgedReason = purge.reason
             /\ after.version = before.version
             /\ after.derivedFrom = before.derivedFrom]_vars

\* a 720p media file of 583 seconds was purged for disk space
C28_Witness ==
  /\ purge.result = "true"
  /\ purge.reason = "disk_space"
  /\ FindFile(disk, "original_media").state = "purged"
  /\ FindFile(disk, "original_media").metadata.quality = "720p"
  /\ FindFile(disk, "original_media").metadata.duration = 583
  /\ FindFile(disk, "original_media").metadata.diskSize = 0

\* C25: with two scheduler processes on the same bucket a write compares no
\* version stamp against the document that was read - a run that ends always
\* stores the copy of its own process, whatever the document holds by then -
\* so that there are interleavings in which one process's persisted change
\* is overwritten by the other's write and in which both processes launch a
\* worker for the same queued task.
C25_NoVersionCheck ==
  [][\A p \in Procs :
       (procs[p].pc = "awaiting" /\ procs'[p].pc # "awaiting") => disk' = procs'[p].mem]_vars

\* both processes launched a worker for the same task; process 1 persisted
\* done for it, and the write of process 2 has put error in its place
C25_Witness ==
  /\ procs[1].task # "none"
  /\ procs[1].task = procs[2].task
  /\ procs[1].outcome = "done"
  /\ procs[2].outcome = "failed"
  /\ FindTask(procs[1].mem, procs[1].task).state = "done"
  /\ FindTask(disk, procs[1].task).state = "error"
  /\ Len(disk.tasks) < Len(procs[1].mem.tasks)

\* C31: in any sequence of evaluator passes, executor runs and manual task
\* appends, a task that is done or error in the persisted document is left
\* as it is by every step (there is no implicit retry).
C31_TerminalUntouched ==
  [][\A i \in 1..Len(disk.tasks) :
       disk.tasks[i].state \in {"done", "error"}
         => i <= Len(disk'.tasks) /\ disk'.tasks[i] = disk.tasks[i]]_vars

\* the artifact state changes of the FileItem state machine that belong to
\* the executor
ExecutorTransitions ==
  {<<"queued", "processing">>, <<"processing", "ready">>, <<"processing", "error">>}

\* C32: every artifact state change the executor makes is queued ->
\* processing, processing -> ready or processing -> error; it never moves an
\* artifact out of ready, error or purged. (Steps of the worker's own write,
\* and executor writes over a document the worker has written, are set
\* aside: the executor's copy and the persisted document agree before the
\* step.)
C32_ArtifactTransitions ==
  [][(~dirty /\ ~dirty') =>
       \A i \in 1..Len(disk.fileManifest) :
         /\ i <= Len(disk'.fileManifest)
         /\ disk'.fileManifest[i].state # disk.fileManifest[i].state
              => <<disk.fileManifest[i].state, disk'.fileManifest[i].state>>
                   \in ExecutorTransitions]_vars

\* C33: in every document the executor persists each task's percent is in
\* 0..100, so the document passes schema validation on its next read,
\* whatever percent values the worker prints.
C33_PercentInRange ==
  \A i \in 1..Len(disk.tasks) : disk.tasks[i].percent \in 0..100

\* C34: once the worker process has exited (its close handler has run and
\* the final document is written), run-next has returned to its caller: the
\* scheduler is not left waiting on the executor - also when the index
\* rebuild after the final write throws.
C34_RunReturns == (worker = "none") => pc # "awaiting"

\* the executor runs a document can still give rise to: its queued tasks and
\* the rules that have no task yet
RunsLeft(m) ==
  Cardinality({i \in 1..Len(m.tasks) : m.tasks[i].state = "queued"})
    + Cardinality({id \in RuleIds : ~HasTask(m, id)})

\* C35: run-all-tasks terminates when every worker exits, after at most as
\* many executor runs as there were tasks queued at the start plus rules in
\* the dependency table: no step raises the number of queued tasks plus
\* rules without a task, and every executor run that is started lowers it.
C35_BoundedRuns ==
  [][/\ RunsLeft(disk') <= RunsLeft(disk)
     /\ (pc = "idle" /\ run'.outcome \in {"active", "nomap"})
          => RunsLeft(disk') < RunsLeft(disk)]_vars

\* run-all-tasks has returned after it ran tasks that the rules added: the
\* document holds at least three tasks, none of them queued or running
C35_Witness ==
  /\ pc = "stopped"
  /\ cli = ReturnedFalse
  /\ Len(disk.tasks) >= 3
  /\ \A i \in 1..Len(disk.tasks) : disk.tasks[i].state \in {"done", "error"}
  /\ run.outcome = "none"

\* C36: between executor runs - after every run has returned - the bucket's
\* entry in the library index is what the rebuild derives from the persisted
\* document: its state is the content state of the document's tasks and
\* artifacts, its hasOriginalMedia says whether the media artifact is ready
\* or processing, and a document that fails validation has no entry.
C36_IndexFollowsDocument ==
  (run.outcome # "active")
    => IF SchemaValid(disk)
       THEN /\ library.state = determineContentState(disk.tasks, disk.fileManifest)
            /\ library.hasOriginalMedia
                 = (\E k \in 1..Len(disk.fileManifest) :
                      /\ disk.fileManifest[k].type = "original_media"
                      /\ disk.fileManifest[k].state \in {"ready", "processing"}
                      /\ \A j \in 1..(k - 1) : disk.fileManifest[j].type # "original_media")
       ELSE library = NoEntry

\* the download has run and returned: the entry now says the media is there
C36_Witness ==
  /\ run.task = "download_media"
  /\ run.outcome = "done"
  /\ worker = "none"
  /\ FindFile(disk, "original_media").state = "ready"
  /\ library.hasOriginalMedia
  /\ library.state = "complete"

\* `after` differs from `before` only in the state, percent, startedAt and
\* error of the tasks with id `task`, in the state of the artifacts of type
\* `output`, and - if `success` - in queued rule tasks and queued
\* placeholders appended at the end
ExecutorFrame(before, after, task, output, success) ==
  /\ Len(after.tasks) >= Len(before.tasks)
  /\ Len(after.fileManifest) >= Len(before.fileManifest)
  /\ \A i \in 1..Len(before.tasks) :
       IF before.tasks[i].id = task
       THEN /\ after.tasks[i].id = before.tasks[i].id
            /\ after.tasks[i].relatedOutput = before.tasks[i].relatedOutput
            /\ after.tasks[i].context = before.tasks[i].context
       ELSE after.tasks[i] = before.tasks[i]
  /\ \A i \in 1..Len(before.fileManifest) :
       IF before.fileManifest[i].type = output
       THEN after.fileManifest[i]
              = [before.fileManifest[i] EXCEPT !.state = after.fileManifest[i].state]
       ELSE after.fileManifest[i] = before.fileManifest[i]
  /\ \A i \in (Len(before.tasks) + 1)..Len(after.tasks) :
       success /\ after.tasks[i].id \in RuleIds /\ after.tasks[i].state = "queued"
  /\ \A i \in (Len(before.fileManifest) + 1)..Len(after.fileManifest) :
       success /\ after.fileManifest[i].state = "queued"

\* C37: every step of an executor run changes, in the executor's copy of the
\* document, only the executed task's state, percent, startedAt and error
\* and the state of the artifacts of its relatedOutput type - the task's id,
\* relatedOutput and context, every other task, every other artifact and
\* every artifact's version, path and derivedFrom stay as they are - apart
\* from what the evaluation after a success appends; and what the executor
\* persists is that copy.
C37_ExecutorFrame ==
  [][(mem' # mem)
       => /\ ExecutorFrame(IF pc = "idle" THEN updateTaskDependencies(disk) ELSE mem,
                           mem', run'.task, run'.output,
                           worker = "alive" /\ run'.outcome = "done")
          /\ disk' # disk => disk' = mem']_vars

\* the fetch_info_json run has ended in success: the task still carries the
\* context it was created with, and the evaluation appended download_media
C37_Witness ==
  /\ run.task = "fetch_info_json"
  /\ run.outcome = "done"
  /\ worker = "none"
  /\ FindTask(disk, "fetch_info_json").state = "done"
  /\ FindTask(disk, "fetch_info_json").context = UrlContext
  /\ FindTask(disk, "download_media").context = "quality=best"

\* rule `id` is eligible on document m: its trigger condition written out
Eligible(m, id) ==
  /\ ~HasTask(m, id)
  /\ \A t \in Requires(id) : FindFile(m, t).state = "ready"
  /\ id = "download_media" => FindTask(m, "fetch_info_json").state = "done"
  /\ id = "extract_audio" => FindFile(m, "original_media").mediaType = "local"

\* C38: when no rule is eligible, the evaluator pass of run-next returns the
\* document unchanged and run-next skips the write-back; when in addition no
\* task is queued, run-next returns false and spawns no worker, writes no
\* document and rebuilds no index.
C38_NoOpWhenNothingToDo ==
  [][(/\ pc = "idle"
      /\ worker = "none"
      /\ SchemaValid(disk)
      /\ \A id \in RuleIds : ~Eligible(disk, id))
       => /\ updateTaskDependencies(disk) = disk
          /\ ~run'.writeBack
          /\ (\A i \in 1..Len(disk.tasks) : disk.tasks[i].state # "queued")
               => /\ cli' = ReturnedFalse
                  /\ pc' = "stopped"
                  /\ worker' = "none"
                  /\ disk' = disk
                  /\ mem' = mem
                  /\ library' = library
                  /\ run'.rebuilds = 0]_vars

\* the pipeline of the bucket has run to the end and the run-next after the
\* last task found nothing to do and returned false
C38_Witness ==
  /\ pc = "stopped"
  /\ cli = ReturnedFalse
  /\ run = NoRun
  /\ SchemaValid(disk)
  /\ Len(disk.tasks) >= 2
  /\ \A i \in 1..Len(disk.tasks) : disk.tasks[i].state = "done"
  /\ \A id \in RuleIds : ~Eligible(disk, id)
  /\ library.state = "complete"

\* C39: whatever order the rules of the table are visited in, one evaluator
\* pass adds the same set of tasks and the same set of placeholder artifacts
\* to the document as the pass in the order of the table does
C39_OrderIndependent ==
  pass.phase = "done" =>
    LET table == updateTaskDependencies(pass.start)
    IN /\ Range(disk.tasks) = Range(table.tasks)
       /\ Len(disk.tasks) = Len(table.tasks)
       /\ Range(disk.fileManifest) = Range(table.fileManifest)
       /\ Len(disk.fileManifest) = Len(table.fileManifest)

\* a pass that visited the rules in another order than the table's, in which
\* two rules fired and one of them pushed a placeholder
C39_Witness ==
  /\ pass.phase = "done"
  /\ Len(pass.newTasks) >= 2
  /\ Len(disk.fileManifest) > Len(pass.start.fileManifest)
  /\ disk.tasks # updateTaskDependencies(pass.start).tasks

====
